---- MODULE Spec2Model ----
(***************************************************************************)
(* A model of the transmut TranslationObserver: the live-tree translation  *)
(* engine (observer.ts), its dynamic-content normaliser                     *)
(* (dynamic-content.ts) and its IndexedDB translation cache (cache.ts).     *)
(*                                                                         *)
(* Strings that the engine inspects character by character (text content,  *)
(* translatable attribute values, lookup keys, translations) are sequences *)
(* of one-character strings.  Marker attributes are plain strings.         *)
(***************************************************************************)
EXTENDS Integers, Sequences, FiniteSets, TLC

(***************************************************************************)
(* Bounds of the model.                                                    *)
(***************************************************************************)
\* translation cycles (#translate invocations) in progress at one time
MaxCycles == 2
\* events of the application and the host in one behaviour: edits of the
\* tree, calls of the engine's methods, connectivity changes, clock ticks,
\* failing requests and malformed lookup answers
MaxExternal == 1

(***************************************************************************)
(* Characters and strings.                                                 *)
(***************************************************************************)
Digits == {"0", "1", "2", "5"}
Letters == {"a", "b", "c", "n", "t", "x", "y"}
Whitespace == {" "}

\* a value that is computed once and handed on to the rest of a computation
Let(value, Then(_)) == CHOOSE r \in {Then(v) : v \in {value}} : TRUE

IsDigit(c) == c \in Digits
\* \w of the regular expression engine
IsWordChar(c) == c \in Digits \cup Letters \cup {"_"}

\* s.slice(a, b) with 0-based a (inclusive) and b (exclusive); "" when a >= b
Slice(s, a, b) ==
    IF a >= b THEN <<>> ELSE SubSeq(s, a + 1, IF b > Len(s) THEN Len(s) ELSE b)

\* s.trim().length === 0
IsBlank(s) == \A i \in 1..Len(s) : s[i] \in Whitespace

\* the last index j >= i such that s[i..j] are all digits (s[i] is a digit)
RECURSIVE DigitRunEnd(_, _)
DigitRunEnd(s, i) ==
    IF i < Len(s) /\ IsDigit(s[i + 1]) THEN DigitRunEnd(s, i + 1) ELSE i

\* \b after position e (1-based index of the last matched character)
BoundaryAfter(s, e) == e = Len(s) \/ ~IsWordChar(s[e + 1])

\* NUMBER_PATTERN = /\b\d+(?:\.\d+)?\b/g once \d+ has matched up to j: the
\* 1-based index of the last matched character, 0 when there is no match
NumberMatchEndFrom(s, j) ==
    IF j + 2 <= Len(s) /\ s[j + 1] = "." /\ IsDigit(s[j + 2])
       /\ BoundaryAfter(s, DigitRunEnd(s, j + 2))
    THEN DigitRunEnd(s, j + 2)
    ELSE IF BoundaryAfter(s, j) THEN j
    ELSE 0

\* NUMBER_PATTERN tried at 1-based position i
NumberMatchEnd(s, i) ==
    IF i > Len(s) \/ ~IsDigit(s[i]) \/ (i > 1 /\ IsWordChar(s[i - 1]))
    THEN 0
    ELSE NumberMatchEndFrom(s, DigitRunEnd(s, i))

\* DEFAULT_VARIABLE_PATTERN = /\${\s*([^}]+?)\s*}/g tried at position i
VariableMatchEnd(s, i) ==
    IF i + 3 > Len(s) \/ s[i] # "$" \/ s[i + 1] # "{" \/ s[i + 2] = "}"
    THEN 0
    ELSE LET closes == {k \in (i + 3)..Len(s) :
                           s[k] = "}" /\ \A m \in (i + 2)..(k - 1) : s[m] # "}"}
         IN  IF closes = {} THEN 0 ELSE CHOOSE k \in closes : TRUE

\* strip leading and trailing whitespace
RECURSIVE Trim(_)
Trim(s) ==
    IF s = <<>> THEN s
    ELSE IF s[1] \in Whitespace THEN Trim(Tail(s))
    ELSE IF s[Len(s)] \in Whitespace THEN Trim(SubSeq(s, 1, Len(s) - 1))
    ELSE s

\* collapse runs of "-" and drop leading "-" (the trailing one is dropped below)
RECURSIVE CollapseHyphens(_, _)
CollapseHyphens(s, prevHyphen) ==
    IF s = <<>> THEN <<>>
    ELSE IF s[1] = "-"
         THEN IF prevHyphen THEN CollapseHyphens(Tail(s), TRUE)
              ELSE <<"-">> \o CollapseHyphens(Tail(s), TRUE)
         ELSE <<s[1]>> \o CollapseHyphens(Tail(s), FALSE)

\* the replace calls of sanitizeVariableName on the trimmed name
SanitizeTrimmed(trimmed) ==
    Let(CollapseHyphens([i \in 1..Len(trimmed) |->
                            IF IsWordChar(trimmed[i]) \/ trimmed[i] = "-"
                            THEN trimmed[i] ELSE "-"], TRUE),
        LAMBDA collapsed :
            IF Len(collapsed) > 0 /\ collapsed[Len(collapsed)] = "-"
            THEN SubSeq(collapsed, 1, Len(collapsed) - 1)
            ELSE collapsed)

\* sanitizeVariableName: <<>> stands for undefined
SanitizeVariableName(name) == SanitizeTrimmed(Trim(name))

\* the name of a variable match: that of the capture, or that of the whole
\* match when the capture has none
VariableName(raw, capture) ==
    Let(SanitizeVariableName(Trim(capture)),
        LAMBDA fromCapture :
            IF fromCapture # <<>> THEN fromCapture
            ELSE SanitizeVariableName(raw))

\* the match of the variable pattern at i, ending at e, as a DynamicFragmentMatch
\* (start and end are 0-based, end exclusive, as in the source)
VariableMatch(s, i, e) ==
    [type |-> "variable", raw |-> SubSeq(s, i, e),
     name |-> VariableName(SubSeq(s, i, e), SubSeq(s, i + 2, e - 1)),
     start |-> i - 1, end |-> e]

NumberMatch(s, i, e) ==
    [type |-> "number", raw |-> SubSeq(s, i, e), name |-> <<>>,
     start |-> i - 1, end |-> e]

\* the exec loops of collectMatches, scanning from position i
RECURSIVE VariableMatches(_, _)
VariableMatches(s, i) ==
    IF i > Len(s) THEN <<>>
    ELSE Let(VariableMatchEnd(s, i),
             LAMBDA e :
                 IF e > 0
                 THEN <<VariableMatch(s, i, e)>> \o VariableMatches(s, e + 1)
                 ELSE VariableMatches(s, i + 1))

RECURSIVE NumberMatches(_, _)
NumberMatches(s, i) ==
    IF i > Len(s) THEN <<>>
    ELSE Let(NumberMatchEnd(s, i),
             LAMBDA e :
                 IF e > 0
                 THEN <<NumberMatch(s, i, e)>> \o NumberMatches(s, e + 1)
                 ELSE NumberMatches(s, i + 1))

\* stable insertion of m into a sequence sorted by start
RECURSIVE InsertByStart(_, _)
InsertByStart(sorted, m) ==
    IF sorted = <<>> THEN <<m>>
    ELSE IF m.start < sorted[1].start THEN <<m>> \o sorted
    ELSE <<sorted[1]>> \o InsertByStart(Tail(sorted), m)

RECURSIVE SortByStart(_, _)
SortByStart(ms, acc) ==
    IF ms = <<>> THEN acc ELSE SortByStart(Tail(ms), InsertByStart(acc, ms[1]))

\* collectMatches: variable matches, then number matches, sorted by start
CollectMatches(s) ==
    SortByStart(VariableMatches(s, 1) \o NumberMatches(s, 1), <<>>)

PlaceholderToken == <<"{", "}">>

RECURSIVE NormalizedParts(_, _, _)
NormalizedParts(s, ms, lastIndex) ==
    IF ms = <<>> THEN Slice(s, lastIndex, Len(s))
    ELSE Slice(s, lastIndex, ms[1].start) \o PlaceholderToken
             \o NormalizedParts(s, Tail(ms), ms[1].end)

\* the result of normalize for the matches ms
Normalized(s, ms) ==
    IF ms = <<>>
    THEN [normalized |-> s, hasVariables |-> FALSE, hasNumbers |-> FALSE,
          fragments |-> <<>>]
    ELSE [normalized |-> NormalizedParts(s, ms, 0),
          hasVariables |-> \E i \in 1..Len(ms) : ms[i].type = "variable",
          hasNumbers |-> \E i \in 1..Len(ms) : ms[i].type = "number",
          fragments |-> [i \in 1..Len(ms) |->
                           [type |-> ms[i].type, raw |-> ms[i].raw,
                            name |-> ms[i].name]]]

\* DynamicContentHelper.normalize
Normalize(s) == Let(CollectMatches(s), LAMBDA ms : Normalized(s, ms))

\* the lookup key of a content: the normalized text when it has dynamic
\* fragments, the content itself otherwise
TranslationKey(s) ==
    Let(Normalize(s),
        LAMBDA r : IF r.hasVariables \/ r.hasNumbers THEN r.normalized ELSE s)

\* the 1-based position of the first occurrence of tok in s from i on, 0 if none
RECURSIVE IndexOf(_, _, _)
IndexOf(s, tok, i) ==
    IF i + Len(tok) - 1 > Len(s) THEN 0
    ELSE IF SubSeq(s, i, i + Len(tok) - 1) = tok THEN i
    ELSE IndexOf(s, tok, i + 1)

\* the replacement patterns String.prototype.replace expands in a replacement
\* string: $$ is a dollar sign and $& is the matched text
RECURSIVE ExpandReplacement(_, _)
ExpandReplacement(r, matched) ==
    IF r = <<>> THEN <<>>
    ELSE IF Len(r) >= 2 /\ r[1] = "$" /\ r[2] = "$"
         THEN <<"$">> \o ExpandReplacement(SubSeq(r, 3, Len(r)), matched)
    ELSE IF Len(r) >= 2 /\ r[1] = "$" /\ r[2] = "&"
         THEN matched \o ExpandReplacement(SubSeq(r, 3, Len(r)), matched)
    ELSE <<r[1]>> \o ExpandReplacement(Tail(r), matched)

\* result.replace(token, replacement): the first occurrence only
ReplaceFirst(s, tok, replacement) ==
    Let(IndexOf(s, tok, 1),
        LAMBDA p :
            IF p = 0 THEN s
            ELSE SubSeq(s, 1, p - 1) \o ExpandReplacement(replacement, tok)
                     \o SubSeq(s, p + Len(tok), Len(s)))

\* DynamicContentHelper.reconstruct; values[i] is the replacement of fragment i
\* (a variable's resolved value, or its raw text when it does not resolve)
RECURSIVE ReconstructFrom(_, _)
ReconstructFrom(result, values) ==
    IF values = <<>> THEN result
    ELSE ReconstructFrom(ReplaceFirst(result, PlaceholderToken, values[1]),
                         Tail(values))

(***************************************************************************)
(* State.                                                                  *)
(***************************************************************************)
VARIABLES
    text,           \* text node -> its textContent
    tattrs,         \* element -> (translatable attribute name -> value)
    attrs,          \* element -> (marker attribute name -> value or Absent)
    options,        \* the resolved observer options
    defaultLocale,  \* <<#defaultLanguage, #defaultRegion>>
    requestedLocale,\* the constructor's locale argument, as <<language, region>>
    locale,         \* <<#langCode, #region>>
    expiryHours,    \* the constructor's expiryHours argument
    nodeStates,     \* #nodeStates: text node -> NodeState
    attrStates,     \* #attrStates: element -> (attribute name -> AttributeState)
    transBatch,     \* #transBatch, in insertion order
    observedRoots,  \* #observedRoots
    connected,      \* the MutationObserver is observing
    records,        \* the MutationObserver's queue of undelivered records
    initDone,       \* #initPromise has resolved
    cycles,         \* the #translate invocations started so far
    cache,          \* the IndexedDB databases: namespace -> (key -> entry)
    db,             \* the TranslationCache fields and the pending open request
    online,         \* navigator.onLine
    now,            \* Date.now(), in clock ticks
    partition,      \* the partition loop that ran last
    history,        \* bookkeeping of the run: counters and the last delivery
    backend,        \* the SQLite file of the backend and its last answer
    detached        \* the subtrees taken out of the document

vars == <<text, tattrs, attrs, options, defaultLocale, requestedLocale, locale,
          expiryHours, nodeStates, attrStates, transBatch, observedRoots, connected,
          records, initDone, cycles, cache, db, online, now, partition, history,
          backend, detached>>

(***************************************************************************)
(* The document.  It starts as html > body > (sec > p > t1,                *)
(* host, area, script), and a shadow root sr on host that holds t2.  The   *)
(* textarea area and the script element are empty unless the document has  *)
(* the text nodes t3 (in area) and t4 (in script).                          *)
(***************************************************************************)
Elements == {"html", "body", "sec", "p", "host", "area", "script"}
ShadowRoots == {"sr"}
TextNodes == {"t1", "t2"}
OptionalTextNodes == {"t3", "t4"}
NoNode == "none"

\* no subtree is out of the document; nodes holds the roots of the subtrees
\* that were removed, transient those on which the removal left the
\* observer registered until its next callback
NoneDetached == [nodes |-> {}, transient |-> {}]

\* Node.parentElement of an element or text node
ParentElement(n) ==
    CASE n \in detached.nodes -> NoNode
      [] n = "body" -> "html"
      [] n = "sec" -> "body"
      [] n = "host" -> "body"
      [] n = "p" -> "sec"
      [] n = "t1" -> "p"
      [] n = "area" -> "body"
      [] n = "script" -> "body"
      [] n = "t3" -> "area"
      [] n = "t4" -> "script"
      [] OTHER -> NoNode

\* Node.parentNode
ParentNode(n) ==
    CASE n = "t2" -> "sr"
      [] OTHER -> ParentElement(n)

\* ShadowRoot.host
Host(r) == IF r = "sr" THEN "host" ELSE NoNode

\* Node.childNodes, in document order
ChildNodesAtFirst(n) ==
    CASE n = "html" -> <<"body">>
      [] n = "body" -> <<"sec", "host", "area", "script">>
      [] n = "sec" -> <<"p">>
      [] n = "p" -> <<"t1">>
      [] n = "sr" -> <<"t2">>
      [] n = "area" -> <<"t3">>
      [] n = "script" -> <<"t4">>
      [] OTHER -> <<>>
ChildNodes(n) == SelectSeq(ChildNodesAtFirst(n), LAMBDA c : c \notin detached.nodes)

\* Element.tagName
TagName(e) ==
    CASE e = "html" -> "HTML"
      [] e = "body" -> "BODY"
      [] e = "sec" -> "SECTION"
      [] e = "p" -> "P"
      [] e = "area" -> "TEXTAREA"
      [] e = "script" -> "SCRIPT"
      [] OTHER -> "DIV"

\* the text nodes / elements below n (n included), in document order
RECURSIVE TextNodesUnder(_)
RECURSIVE TextNodesUnderAll(_)
TextNodesUnder(n) ==
    IF n \in TextNodes \cup OptionalTextNodes
    THEN (IF n \in DOMAIN text THEN <<n>> ELSE <<>>)
    ELSE TextNodesUnderAll(ChildNodes(n))
TextNodesUnderAll(ns) ==
    IF ns = <<>> THEN <<>> ELSE TextNodesUnder(ns[1]) \o TextNodesUnderAll(Tail(ns))

RECURSIVE ElementsUnder(_)
RECURSIVE ElementsUnderAll(_)
ElementsUnder(n) ==
    IF n \in Elements THEN <<n>> \o ElementsUnderAll(ChildNodes(n)) ELSE <<>>
ElementsUnderAll(ns) ==
    IF ns = <<>> THEN <<>> ELSE ElementsUnder(ns[1]) \o ElementsUnderAll(Tail(ns))

\* the elements from e upward through parentElement, e first
RECURSIVE AncestorsOrSelf(_)
AncestorsOrSelf(e) ==
    IF e = NoNode THEN <<>> ELSE <<e>> \o AncestorsOrSelf(ParentElement(e))

\* the root through which the observer is registered for element e: body for
\* the elements of the document and for those of a removed subtree that is
\* still transiently observed
Top(e) == Let(AncestorsOrSelf(e), LAMBDA up : up[Len(up)])
RootOfElement(e) ==
    IF e = "html" THEN NoNode
    ELSE IF Top(e) = "html" \/ Top(e) \in detached.transient THEN "body"
    ELSE NoNode

(***************************************************************************)
(* Attributes.  Marker attributes hold plain strings, Absent when the      *)
(* attribute is not present; translatable attributes hold character        *)
(* sequences and are present when in the DOMAIN of the element's map.      *)
(***************************************************************************)
Absent == "<absent>"
MarkerNames == {"data-transmut", "data-transmut-skip", "data-transmut-attrs",
                "data-transmut-locale", "lang", "dir", "data-transmut-lang",
                "data-transmut-dir"}
\* DEFAULT_ATTRIBUTE_NAMES, cut to the names the document uses
DefaultAttributeNames == {"title"}

DATA_DIRECTIVE_SKIP_VALUES == {"false", "off", "skip", "ignore", "no", "none", "stop"}
DATA_DIRECTIVE_INCLUDE_VALUES == {"", "true", "on", "yes", "include", "auto", "all"}
BOOLEAN_FALSE_VALUES == {"false", "off", "no", "0", "none", "exclude"}
\* DEFAULT_DIRECTION_OVERRIDES, cut to the languages of the model
DEFAULT_DIRECTION_OVERRIDES == [l \in {"ar"} |-> "rtl"]

(***************************************************************************)
(* Locales.  A locale is <<language, region>> as the engine stores it      *)
(* (lower case, region "" when there is none).                             *)
(***************************************************************************)
\* composeLocaleTag: language, "-", upper-cased region
ComposeLocaleTag(lang, region) ==
    CASE region = "" -> lang
      [] lang = "es" /\ region = "mx" -> "es-MX"
      [] lang = "en" /\ region = "us" -> "en-US"
      [] OTHER -> lang

\* value.toLowerCase() of a locale tag
TagLower(tag) ==
    CASE tag = "es-MX" -> "es-mx"
      [] tag = "en-US" -> "en-us"
      [] OTHER -> tag

\* formatLocaleTag of an attribute value
FormatLocaleTag(value) ==
    CASE value = "es-mx" -> "es-MX"
      [] value = "en-us" -> "en-US"
      [] OTHER -> value

\* the base language of a lower-cased tag: split(/[-_]/)[0]
BaseLanguage(tag) ==
    CASE tag = "es-mx" -> "es"
      [] tag = "en-us" -> "en"
      [] OTHER -> tag

\* TranslationCache.composeDbName: the namespace of a locale
ComposeDbName(lang, region) == <<lang, IF region = "" THEN "default" ELSE region>>

\* Map operations
MapPut(f, k, v) == [x \in (DOMAIN f) \cup {k} |-> IF x = k THEN v ELSE f[x]]
MapDelete(f, k) == [x \in (DOMAIN f) \ {k} |-> f[x]]
EmptyMap == <<>>

\* an add that keeps repeats, as a list would: the coalescing of keys fails with it
SetAddRepeating(seq, x) == Append(seq, x)

\* Set.add on a set kept in insertion order
SetAdd(seq, x) == IF \E i \in 1..Len(seq) : seq[i] = x THEN seq ELSE Append(seq, x)

(***************************************************************************)
(* The part of the engine state that a scan reads and writes is passed     *)
(* through the scan as a record m:                                         *)
(*   m.ns     #nodeStates        m.as     #attrStates                      *)
(*   m.batch  #transBatch        m.attrs  the marker attributes            *)
(*   m.recs   the observer's record queue                                  *)
(*   m.adds   every key handed to #transBatch.add during the scan, in      *)
(*            order (bookkeeping)                                          *)
(***************************************************************************)
Scan == [ns |-> nodeStates, as |-> attrStates, batch |-> transBatch,
         attrs |-> attrs, recs |-> records, adds |-> <<>>]

\* whether a mutation of element e is reported to the observer
IsObserved(e) == connected /\ RootOfElement(e) \in observedRoots

AttributeRecord(e, name, own) ==
    [type |-> "attributes", target |-> e, name |-> name, own |-> own]
CharacterDataRecord(t, own) ==
    [type |-> "characterData", target |-> t, name |-> "", own |-> own]

\* #setAttributeIfChanged
SetAttributeIfChanged(m, e, name, value) ==
    IF m.attrs[e][name] = value THEN m
    ELSE [m EXCEPT !.attrs[e][name] = value,
                   !.recs = IF IsObserved(e)
                            THEN Append(@, AttributeRecord(e, name, TRUE))
                            ELSE @]

\* #setAttributeIfChanged for an attribute and its data-transmut- mirror
SetBothIfChanged(m, e, name, mirror, value) ==
    Let(SetAttributeIfChanged(m, e, name, value),
        LAMBDA m1 : SetAttributeIfChanged(m1, e, mirror, value))

\* #getCurrentLocaleTag
CurrentLocaleTag == ComposeLocaleTag(locale[1], locale[2])

\* the merged direction overrides of the resolved options
DirectionOverrides == options.directionOverrides

\* #resolveDirection
ResolveDirection(lang) ==
    LET base == BaseLanguage(lang)
    IN  IF options.direction # "auto" THEN options.direction
        ELSE IF lang \in DOMAIN DirectionOverrides THEN DirectionOverrides[lang]
        ELSE IF base \in DOMAIN DirectionOverrides THEN DirectionOverrides[base]
        ELSE "ltr"

\* #directionForLocale; "" stands for undefined
DirectionForLocale(tag) ==
    LET normalized == TagLower(tag)
        base == BaseLanguage(normalized)
    IN  IF tag = "" THEN ""
        ELSE IF normalized \in DOMAIN DirectionOverrides
             THEN DirectionOverrides[normalized]
        ELSE IF base \in DOMAIN DirectionOverrides THEN DirectionOverrides[base]
        ELSE ""

\* #readDirectionOverride; "" stands for undefined
ReadDirectionOverride(a, e) ==
    LET rawDir == IF a[e]["data-transmut-dir"] # Absent
                  THEN a[e]["data-transmut-dir"] ELSE a[e]["dir"]
    IN  IF rawDir \in {"ltr", "rtl"} THEN rawDir ELSE ""

\* a SectionLocaleDirective; present = FALSE stands for null
NoDirective ==
    [present |-> FALSE, localeTag |-> "", direction |-> "", skipTranslation |-> FALSE]

\* #normalizeLocaleDirective
NormalizeLocaleDirective(value) ==
    IF value \in {"", "inherit", "auto", "target"}
    THEN [NoDirective EXCEPT !.present = TRUE]
    ELSE IF value \in {"skip", "source", "original", "none"}
    THEN [NoDirective EXCEPT !.present = TRUE, !.skipTranslation = TRUE]
    ELSE LET tag == FormatLocaleTag(value)
         IN  [present |-> TRUE, localeTag |-> tag, direction |-> "",
              skipTranslation |-> TagLower(tag) # TagLower(CurrentLocaleTag)]

\* the directive of a data-transmut-locale value with the direction
\* override over
WithDirection(d, over) ==
    IF over # "" THEN [d EXCEPT !.direction = over]
    ELSE IF d.localeTag # ""
    THEN [d EXCEPT !.direction = DirectionForLocale(d.localeTag)]
    ELSE d

\* the directive of a lang attribute whose formatted value is tag
LangDirective(tag, over) ==
    IF tag = "" THEN NoDirective
    ELSE [present |-> TRUE, localeTag |-> tag,
          direction |-> IF over # "" THEN over ELSE DirectionForLocale(tag),
          skipTranslation |-> TagLower(tag) # TagLower(CurrentLocaleTag)]

\* #compileLocaleDirective
CompileLocaleDirective(a, e) ==
    IF a[e]["data-transmut-locale"] # Absent
    THEN WithDirection(NormalizeLocaleDirective(a[e]["data-transmut-locale"]),
                       ReadDirectionOverride(a, e))
    ELSE IF a[e]["lang"] # Absent
    THEN LangDirective(FormatLocaleTag(a[e]["lang"]), ReadDirectionOverride(a, e))
    ELSE IF a[e]["data-transmut-dir"] # Absent /\ ReadDirectionOverride(a, e) # ""
    THEN [NoDirective EXCEPT !.present = TRUE,
                             !.direction = ReadDirectionOverride(a, e)]
    ELSE NoDirective

\* #applyLocaleAttributes, direction being the directive's direction or
\* that of its locale
ApplyLocaleAttributesWith(m, e, d, direction) ==
    Let(IF d.localeTag # ""
        THEN SetBothIfChanged(m, e, "lang", "data-transmut-lang", d.localeTag)
        ELSE m,
        LAMBDA m1 :
            IF direction # ""
            THEN SetBothIfChanged(m1, e, "dir", "data-transmut-dir", direction)
            ELSE m1)

\* #applyLocaleAttributes
ApplyLocaleAttributes(m, e, d) ==
    IF ~options.setLanguageAttributes THEN m
    ELSE ApplyLocaleAttributesWith(m, e, d,
             IF d.direction # "" THEN d.direction
             ELSE DirectionForLocale(d.localeTag))

\* #applyLocaleAttributes when the element has a directive
ApplyDirective(m, e, d) == IF d.present THEN ApplyLocaleAttributes(m, e, d) ELSE m

\* #applyLocaleAttributesToElement
ApplyLocaleAttributesToElement(m, e) ==
    ApplyDirective(m, e, CompileLocaleDirective(m.attrs, e))

\* a walk that finds no directive that skips translation
GetSectionLocaleInfoNever(m, e) == [m |-> m, skip |-> FALSE]

\* one element of the walk of #getSectionLocaleInfo: the scan state after
\* it, whether the walk ends here, and the element's directive d
RECURSIVE GetSectionLocaleInfo(_, _)
SectionStep(m, e, d) ==
    Let(ApplyDirective(m, e, d),
        LAMBDA m1 :
            IF d.present /\ d.skipTranslation THEN [m |-> m1, skip |-> TRUE]
            ELSE GetSectionLocaleInfo(m1, ParentElement(e)))

\* #getSectionLocaleInfo: the scan state after the walk, and whether a
\* directive that skips translation was found
GetSectionLocaleInfo(m, e) ==
    IF e = NoNode THEN [m |-> m, skip |-> FALSE]
    ELSE SectionStep(m, e, CompileLocaleDirective(m.attrs, e))

\* #hasSkipAttribute
HasSkipAttribute(a, e) ==
    LET attr == a[e]["data-transmut-skip"]
    IN  IF attr = Absent THEN FALSE
        ELSE IF attr = "" THEN TRUE
        ELSE attr \notin BOOLEAN_FALSE_VALUES

\* #parseTransmutDirective
ParseTransmutDirective(value) ==
    IF value \in DATA_DIRECTIVE_SKIP_VALUES THEN "skip"
    ELSE IF value = "inherit" THEN "inherit"
    ELSE "include"

\* #findTransmutDirective; "null" when no directive is found
RECURSIVE FindTransmutDirective(_, _)
FindTransmutDirective(a, e) ==
    IF e = NoNode THEN "null"
    ELSE IF HasSkipAttribute(a, e) THEN "skip"
    ELSE IF a[e]["data-transmut"] # Absent
            /\ ParseTransmutDirective(a[e]["data-transmut"]) # "inherit"
         THEN ParseTransmutDirective(a[e]["data-transmut"])
    ELSE FindTransmutDirective(a, ParentElement(e))

\* #matchesTextSelector: element.closest(textSelector), the selector being
\* "[data-transmut]" under requireExplicitOptIn and null otherwise
MatchesTextSelector(a, e) ==
    /\ options.requireExplicitOptIn
    /\ \E i \in 1..Len(AncestorsOrSelf(e)) :
           a[AncestorsOrSelf(e)[i]]["data-transmut"] # Absent

\* #matchesAttributeSelector: element.matches("[data-transmut-attrs]")
MatchesAttributeSelector(a, e) == a[e]["data-transmut-attrs"] # Absent

\* #isEditable (no element of the document is contentEditable)
IsEditable(e) == TagName(e) \in {"INPUT", "TEXTAREA", "SELECT"}

\* an element test that holds of every element
AnyElement(e) == TRUE

\* #isProhibitedContainer
IsProhibitedContainer(e) == TagName(e) \in {"SCRIPT", "STYLE", "NOSCRIPT"}

\* #getTextContainer
GetTextContainer(t) ==
    IF ParentElement(t) # NoNode THEN ParentElement(t)
    ELSE IF ParentNode(t) \in ShadowRoots THEN Host(ParentNode(t))
    ELSE NoNode

(***************************************************************************)
(* The scan: which text nodes and attributes are tracked and enqueued.     *)
(***************************************************************************)
\* #shouldProcessTextNode past the tests of the container itself, directive
\* being the result of #findTransmutDirective
ShouldProcessIn(m, container, directive) ==
    IF directive = "skip" THEN [m |-> m, ok |-> FALSE]
    ELSE Let(GetSectionLocaleInfo(m, container),
             LAMBDA info :
                 IF info.skip THEN [m |-> info.m, ok |-> FALSE]
                 ELSE IF options.requireExplicitOptIn
                 THEN [m |-> info.m,
                       ok |-> MatchesTextSelector(info.m.attrs, container)
                                 \/ directive = "include"]
                 ELSE [m |-> info.m, ok |-> TRUE])

\* #shouldProcessTextNode: the scan state after it (resolving the section
\* locale stamps metadata) and its result
ShouldProcessTextNode(m, t) ==
    IF GetTextContainer(t) = NoNode
    THEN [m |-> m, ok |-> ~options.requireExplicitOptIn]
    ELSE IF options.skipEditable /\ IsEditable(GetTextContainer(t))
    THEN [m |-> m, ok |-> FALSE]
    ELSE IF IsProhibitedContainer(GetTextContainer(t)) THEN [m |-> m, ok |-> FALSE]
    ELSE ShouldProcessIn(m, GetTextContainer(t),
                         FindTransmutDirective(m.attrs, GetTextContainer(t)))

\* the NodeState / AttributeState recorded when a value with the
\* normalisation r is enqueued
PendingOf(content, r) ==
    [translated |-> FALSE,
     lastText |-> content,
     pendingSource |-> IF r.hasVariables \/ r.hasNumbers
                       THEN r.normalized ELSE content,
     normalizedKey |-> IF r.hasVariables \/ r.hasNumbers
                       THEN r.normalized ELSE <<>>,
     fragments |-> r.fragments]

PendingState(content) == Let(Normalize(content), LAMBDA r : PendingOf(content, r))

\* a test that takes no value for clean
NeverClean(state, content) == FALSE

\* a test that takes a value for clean under the default locale only
CleanForDefault(state, content) ==
    state.translated /\ state.lastText = content /\ locale = defaultLocale

\* the test that leaves a tracked value alone: it is translated and its
\* content is the one last seen (lines 1029-1033 and 753-756)
IsClean(state, content) == state.translated /\ state.lastText = content

\* the scan state after a value is enqueued with the state pending
Enqueued(m, pending) ==
    [m EXCEPT !.batch = SetAdd(@, pending.pendingSource),
              !.adds = Append(@, pending.pendingSource)]

\* #handlePotentialText on a text node
HandleTextNode(m, t) ==
    Let(ShouldProcessTextNode(m, t),
        LAMBDA sp :
            IF ~sp.ok THEN [sp.m EXCEPT !.ns = MapDelete(@, t)]
            ELSE IF IsBlank(text[t]) THEN [sp.m EXCEPT !.ns = MapDelete(@, t)]
            ELSE IF t \in DOMAIN sp.m.ns /\ IsClean(sp.m.ns[t], text[t])
            THEN sp.m
            ELSE Let(PendingState(text[t]),
                     LAMBDA pending :
                         [Enqueued(sp.m, pending) EXCEPT
                             !.ns = MapPut(@, t, pending)]))

RECURSIVE HandleTextNodes(_, _)
HandleTextNodes(m, ts) ==
    IF ts = <<>> THEN m
    ELSE Let(HandleTextNode(m, ts[1]),
             LAMBDA m1 : HandleTextNodes(m1, Tail(ts)))

\* #handlePotentialText: the text nodes below node, in document order
HandlePotentialText(m, node) == HandleTextNodes(m, TextNodesUnder(node))

\* #parseAttributeList of a data-transmut-attrs value (one name at most)
ParseAttributeList(value) == IF value \in {Absent, ""} THEN <<>> ELSE <<value>>

\* the names of seq that satisfy Keep, in order
RECURSIVE FilterSeq(_, _)
FilterSeq(seq, keep) ==
    IF seq = <<>> THEN <<>>
    ELSE IF seq[1] \in keep THEN <<seq[1]>> \o FilterSeq(Tail(seq), keep)
    ELSE FilterSeq(Tail(seq), keep)

RECURSIVE SetAddAll(_, _)
SetAddAll(seq, xs) ==
    IF xs = <<>> THEN seq ELSE SetAddAll(SetAdd(seq, xs[1]), Tail(xs))

\* a set as a sequence, in a fixed order
RECURSIVE SeqOfSet(_)
SeqOfSet(S) ==
    IF S = {} THEN <<>>
    ELSE LET x == CHOOSE y \in S : TRUE IN <<x>> \o SeqOfSet(S \ {x})

\* the target names of #resolveAttributeTargets before the filter on the
\* attributes the element has: the explicit list, with the default names
\* when the element is selected
WithDefaults(a, e, directive, explicitList) ==
    IF MatchesAttributeSelector(a, e) \/ directive = "include"
       \/ (a[e]["data-transmut-attrs"] # Absent /\ explicitList = <<>>)
    THEN SetAddAll(explicitList,
                   FilterSeq(SeqOfSet(DefaultAttributeNames), DOMAIN tattrs[e]))
    ELSE explicitList

\* #resolveAttributeTargets once the section locale is resolved
TargetsOf(m, e, targets) ==
    IF options.requireExplicitOptIn /\ targets = <<>>
    THEN [m |-> m, targets |-> <<>>]
    ELSE [m |-> m, targets |-> FilterSeq(targets, DOMAIN tattrs[e])]

\* #resolveAttributeTargets past the skip tests
ResolveTargetsIn(m, e, directive) ==
    Let(GetSectionLocaleInfo(m, e),
        LAMBDA info :
            IF info.skip THEN [m |-> info.m, targets |-> <<>>]
            ELSE TargetsOf(info.m, e,
                     WithDefaults(info.m.attrs, e, directive,
                         ParseAttributeList(info.m.attrs[e]["data-transmut-attrs"]))))

\* #resolveAttributeTargets: the scan state after it and the target names
ResolveAttributeTargets(m, e) ==
    IF FindTransmutDirective(m.attrs, e) = "skip" \/ HasSkipAttribute(m.attrs, e)
    THEN [m |-> m, targets |-> <<>>]
    ELSE ResolveTargetsIn(m, e, FindTransmutDirective(m.attrs, e))

\* #queueAttributeTranslation on the element's map attrMap: the scan state
\* and the map after it
QueueAttributeTranslation(m, e, name, attrMap) ==
    IF name \notin DOMAIN tattrs[e] \/ tattrs[e][name] = <<>>
    THEN [m |-> IF DOMAIN MapDelete(attrMap, name) = {}
                THEN [m EXCEPT !.as = MapDelete(@, e)] ELSE m,
          attrMap |-> MapDelete(attrMap, name)]
    ELSE IF name \in DOMAIN attrMap /\ IsClean(attrMap[name], tattrs[e][name])
    THEN [m |-> m, attrMap |-> attrMap]
    ELSE Let(PendingState(tattrs[e][name]),
             LAMBDA pending :
                 [m |-> Enqueued(m, pending),
                  attrMap |-> MapPut(attrMap, name, pending)])

RECURSIVE QueueAttributeTranslations(_, _, _, _)
QueueAttributeTranslations(m, e, names, attrMap) ==
    IF names = <<>> THEN [m |-> m, attrMap |-> attrMap]
    ELSE Let(QueueAttributeTranslation(m, e, names[1], attrMap),
             LAMBDA r : QueueAttributeTranslations(r.m, e, Tail(names), r.attrMap))

\* the elements of a set that seq holds
Range(seq) == {seq[i] : i \in 1..Len(seq)}

\* the entries of the element's attribute states that are among the targets
Kept(existing, targets) ==
    [n \in (DOMAIN existing) \cap Range(targets) |-> existing[n]]

\* #queueAttributesForElement
QueueAttributesForElement(m, e) ==
    Let(ResolveAttributeTargets(m, e),
        LAMBDA rt :
            IF rt.targets = <<>> THEN [rt.m EXCEPT !.as = MapDelete(@, e)]
            ELSE Let(QueueAttributeTranslations(rt.m, e, rt.targets,
                         Kept(IF e \in DOMAIN rt.m.as THEN rt.m.as[e] ELSE EmptyMap,
                              rt.targets)),
                     LAMBDA q :
                         IF DOMAIN q.attrMap # {}
                         THEN [q.m EXCEPT !.as = MapPut(@, e, q.attrMap)]
                         ELSE [q.m EXCEPT !.as = MapDelete(@, e)]))

RECURSIVE QueueAttributesForElements(_, _)
QueueAttributesForElements(m, es) ==
    IF es = <<>> THEN m
    ELSE Let(QueueAttributesForElement(m, es[1]),
             LAMBDA m1 : QueueAttributesForElements(m1, Tail(es)))

\* #handlePotentialAttributes: the elements below node, in document order
HandlePotentialAttributes(m, node) ==
    QueueAttributesForElements(m, ElementsUnder(node))

\* #cleanupNode
CleanupNode(m, node) ==
    [m EXCEPT !.ns = [t \in (DOMAIN @) \ Range(TextNodesUnder(node)) |-> @[t]],
              !.as = [e \in (DOMAIN @) \ Range(ElementsUnder(node)) |-> @[e]]]

RECURSIVE HandlePotentialTextAll(_, _)
HandlePotentialTextAll(m, nodes) ==
    IF nodes = <<>> THEN m
    ELSE Let(HandlePotentialText(m, nodes[1]),
             LAMBDA m1 : HandlePotentialTextAll(m1, Tail(nodes)))

\* the scan of a subtree: #handlePotentialText, then
\* #handlePotentialAttributes
ScanRoot(m, root) ==
    Let(HandlePotentialText(m, root),
        LAMBDA m1 : HandlePotentialAttributes(m1, root))

\* #handleAttributeMutation
HandleAttributeMutation(m, e, attributeName) ==
    IF attributeName = "" THEN m
    ELSE IF attributeName \in {"data-transmut", "data-transmut-attrs",
                               "data-transmut-skip"}
    THEN Let(IF attributeName = "data-transmut-skip"
                /\ HasSkipAttribute(m.attrs, e)
             THEN CleanupNode(m, e) ELSE m,
             LAMBDA m1 : Let(QueueAttributesForElement(m1, e),
                             LAMBDA m2 : ScanRoot(m2, e)))
    ELSE IF attributeName \in {"data-transmut-locale", "data-transmut-dir",
                               "lang", "dir"}
    THEN Let(ApplyLocaleAttributesToElement(m, e),
             LAMBDA m1 : Let(QueueAttributesForElement(m1, e),
                             LAMBDA m2 : HandlePotentialTextAll(m2, ChildNodes(e))))
    ELSE QueueAttributesForElement(m, e)

\* one MutationRecord of the callback's loop; a childList record carries the
\* added and the removed nodes
ProcessRecord(m, rec) ==
    IF rec.type = "characterData" THEN HandlePotentialText(m, rec.target)
    ELSE IF rec.type = "childList"
    THEN Let(IF rec.name = "added" THEN ScanRoot(m, rec.target) ELSE m,
             LAMBDA afterAdded :
                 IF rec.name = "removed" THEN CleanupNode(afterAdded, rec.target)
                 ELSE afterAdded)
    ELSE IF rec.target \in Elements
    THEN HandleAttributeMutation(m, rec.target, rec.name)
    ELSE m

RECURSIVE ProcessRecords(_, _)
ProcessRecords(m, recs) ==
    IF recs = <<>> THEN m
    ELSE Let(ProcessRecord(m, recs[1]),
             LAMBDA m1 : ProcessRecords(m1, Tail(recs)))

(***************************************************************************)
(* The translation cycle (#translate) and the cache it uses.               *)
(***************************************************************************)
\* the clock ticks of one hour (60 * 60 * 1000 ms in the source)
TicksPerHour == 1
\* null of #expiryMs
NoExpiry == -1

\* the constructor's #expiryMs
ExpiryMs(hours) == IF hours > 0 THEN hours * TicksPerHour ELSE NoExpiry

\* a stale test that lets an entry live for more than the configured time
IsStaleLate(entry, expiry, nowAt) ==
    expiry # NoExpiry /\ expiry >= 0 /\ nowAt - entry.updatedAt > expiry

\* the stale test of #translate's partition loop
IsStale(entry, expiry, nowAt) ==
    expiry # NoExpiry /\ expiry >= 0 /\ nowAt - entry.updatedAt >= expiry

NoDb == <<"", "">>
NoLocale == <<"", "">>

\* the answers of the application's lookup function, by locale and key
Dictionary(loc, k) ==
    IF loc[1] = "es"
    THEN (IF k = <<"a">> THEN <<"b">> ELSE <<"n">> \o k)
    ELSE (IF k = <<"a">> THEN <<"c">> ELSE k \o <<"c">>)

\* what a call of getTranslations may produce: a map, a JSON text (given by
\* what JSON.parse makes of it), a nullish value, or a rejection
LookupOutcomes == {"map", "empty", "nullish", "jsonMap", "jsonInvalid",
                   "jsonNull", "reject"}
\* the outcomes of a lookup function that fails or answers out of contract
LookupFaults == {"nullish", "jsonInvalid", "jsonNull", "reject"}

\* lines 1128-1151 of #translate: the value of fetched after the call, with
\* isNull set when fetched is null
FetchedOf(outcome, loc, keys) ==
    LET answer == [k \in Range(keys) |-> Dictionary(loc, k)]
    IN  CASE outcome \in {"map", "jsonMap"} -> [isNull |-> FALSE, map |-> answer]
          [] outcome = "jsonNull" -> [isNull |-> TRUE, map |-> EmptyMap]
          [] OTHER -> [isNull |-> FALSE, map |-> EmptyMap]

\* Object.assign(resolved, fetched)
Merge(resolved, fetched) ==
    [k \in (DOMAIN resolved) \cup (DOMAIN fetched) |->
        IF k \in DOMAIN fetched THEN fetched[k] ELSE resolved[k]]

\* the keys of seq that satisfy the set keep, without duplicates: Array.from(new Set(..))
RECURSIVE Dedupe(_, _)
Dedupe(seq, acc) ==
    IF seq = <<>> THEN acc ELSE Dedupe(Tail(seq), SetAdd(acc, seq[1]))

\* a choice of the keys to fetch that ignores the connectivity of the host
KeysNeedingFetchAlways(isOffline, missingKeys, staleKeys) ==
    Dedupe(missingKeys \o staleKeys, <<>>)

\* the partition loop and the offline check of #translate (lines 1080-1109)
KeysNeedingFetch(isOffline, missingKeys, staleKeys) ==
    IF isOffline THEN <<>> ELSE Dedupe(missingKeys \o staleKeys, <<>>)

RECURSIVE KeysWhere(_, _)
KeysWhere(batch, S) ==
    IF batch = <<>> THEN <<>>
    ELSE IF batch[1] \in S THEN <<batch[1]>> \o KeysWhere(Tail(batch), S)
    ELSE KeysWhere(Tail(batch), S)

Partition(batch, cachedEntries, nowAt, isOffline) ==
    LET hit == DOMAIN cachedEntries
        missingKeys == KeysWhere(batch, Range(batch) \ hit)
        staleKeys == KeysWhere(batch,
                        {k \in hit : IsStale(cachedEntries[k],
                                             ExpiryMs(expiryHours), nowAt)})
    IN  [resolved |-> [k \in hit \cap Range(batch) |-> cachedEntries[k].value],
         fetchKeys |-> KeysNeedingFetch(isOffline, missingKeys, staleKeys)]

\* A store holds, for a key, the entry {value, updatedAt} or, written by an
\* earlier version, the translation as a plain string; the latter is the
\* record whose updatedAt is StoredAsString.
StoredAsString == 0 - 1000

\* the clock counts ticks from the construction of the observer; Epoch is
\* the tick of Date.now() = 0, which lies further back than any expiry
Epoch == 0 - 2 * TicksPerHour

\* a reading of the store that hands out what it finds
AsStored(raw) == raw

\* the entry getCachedTranslations makes of a stored value (lines 95-109)
AsCachedEntry(raw) ==
    IF raw.updatedAt = StoredAsString
    THEN [value |-> raw.value, updatedAt |-> Epoch]
    ELSE [value |-> raw.value, updatedAt |-> raw.updatedAt]

\* TranslationCache.getCachedTranslations on an open database: the entries
\* of the requested keys that the store holds
CachedEntries(ns, keys) ==
    [k \in Range(keys) \cap DOMAIN cache[ns] |-> AsCachedEntry(cache[ns][k])]

\* a cycle that has not started any cache or lookup operation
NewCycle(batch) ==
    [batch |-> batch, pc |-> "init", phase |-> "read", handle |-> NoDb,
     joined |-> 0, resolved |-> EmptyMap, fetched |-> EmptyMap,
     fetchKeys |-> <<>>, lookupLocale |-> NoLocale, putAt |-> 0,
     \* bookkeeping: the number of getTranslations calls, why the cycle was
     \* abandoned, the text nodes pending on the batch when it was taken, and
     \* those of them whose content has changed since
     calls |-> 0, failure |-> "", watch |-> {}, dirty |-> {}]

\* the backend before its database file exists: no schema, no rows, nothing
\* returned, no upsert made, no call of upsertTranslations begun
NoDatabaseFile ==
    [schema |-> FALSE, translations |-> {},
     returned |-> [call |-> "", threw |-> FALSE, value |-> <<>>, wrote |-> FALSE,
                   flagged |-> FALSE, described |-> FALSE],
     upserts |-> 0, calls |-> <<>>]

\* bookkeeping: the partition loop that ran last
NoPartition ==
    [cycle |-> 0, hits |-> EmptyMap, nowAt |-> 0, offline |-> FALSE,
     fetchKeys |-> <<>>]

\* #buildVariableAttributeName, as the name of a translatable-attribute slot
VariableAttributeName(name) ==
    IF name = <<"n">> THEN "data-transmut-n"
    ELSE IF name = <<"2">> THEN "data-transmut-2"
    ELSE "data-transmut-?"

\* the elements #resolveVariableValue visits, from the container upward,
\* crossing from a shadow root to its host
RECURSIVE ResolveVariableValue(_, _)
ResolveVariableValue(container, fragment) ==
    IF container = NoNode \/ fragment.name = <<>> THEN fragment.raw
    ELSE IF VariableAttributeName(fragment.name) \in DOMAIN tattrs[container]
    THEN tattrs[container][VariableAttributeName(fragment.name)]
    ELSE IF ParentElement(container) = NoNode THEN fragment.raw
    ELSE ResolveVariableValue(ParentElement(container), fragment)

\* #reconstructText
ReconstructText(translatedBase, fragments, container) ==
    ReconstructFrom(translatedBase,
        [i \in 1..Len(fragments) |->
            IF fragments[i].type = "variable"
            THEN ResolveVariableValue(container, fragments[i])
            ELSE fragments[i].raw])

\* an apply phase that leaves the lookup key of the content pending
SettledWithKey(translated, content) ==
    [translated |-> translated, lastText |-> content,
     pendingSource |-> TranslationKey(content),
     normalizedKey |-> <<>>, fragments |-> <<>>]

\* the state of a tracked value once the cycle has dealt with it
SettledState(translated, content) ==
    [translated |-> translated, lastText |-> content, pendingSource |-> <<>>,
     normalizedKey |-> <<>>, fragments |-> <<>>]

\* whether the apply phase takes up a tracked value
IsRequested(state, batch) ==
    state.pendingSource # <<>> /\ state.pendingSource \in Range(batch)

\* an apply phase that never takes a value for superseded
NeverSuperseded(state, current) == FALSE

\* whether the apply phase must leave the value alone: its content is no
\* longer the content the pending key was derived from
IsSuperseded(state, current) == current # state.lastText

\* the value the apply phase writes for a tracked value whose key resolved
\* to translatedBase; <<>> when it writes nothing
FinalOf(state, current, translatedBase, container) ==
    IF translatedBase # <<>> /\ translatedBase # current
    THEN (IF state.normalizedKey # <<>>
          THEN ReconstructText(translatedBase, state.fragments, container)
          ELSE translatedBase)
    ELSE <<>>

FinalTranslation(state, current, resolved, container) ==
    FinalOf(state, current,
            IF state.pendingSource \in DOMAIN resolved
            THEN resolved[state.pendingSource] ELSE <<>>,
            container)

\* whether a mutation of text node t is reported to the observer
IsObservedText(t) ==
    /\ connected
    /\ IF ParentNode(t) \in ShadowRoots THEN ParentNode(t) \in observedRoots
       ELSE RootOfElement(ParentElement(t)) \in observedRoots

\* the apply phase on text node t (lines 1162-1202), final being the value
\* to write: a is the record of the tree, the tracked states and the
\* observer's queue
ApplyTextNode(a, t, batch, final) ==
    IF ~IsRequested(a.ns[t], batch) THEN a
    ELSE IF IsSuperseded(a.ns[t], a.text[t])
    THEN [a EXCEPT !.ns[t] = SettledState(FALSE, a.text[t])]
    ELSE IF final # <<>>
    THEN [a EXCEPT !.text[t] = final,
                   !.ns[t] = SettledState(TRUE, final),
                   !.recs = IF IsObservedText(t)
                            THEN Append(@, CharacterDataRecord(t, TRUE))
                            ELSE @]
    ELSE [a EXCEPT !.ns[t] = SettledState(TRUE, a.text[t])]

\* the apply phase for text nodes (lines 1161-1203)
RECURSIVE ApplyTextNodes(_, _, _, _)
ApplyTextNodes(a, ts, batch, resolved) ==
    IF ts = <<>> THEN a
    ELSE Let(ApplyTextNode(a, ts[1], batch,
                 FinalTranslation(a.ns[ts[1]], a.text[ts[1]], resolved,
                                  GetTextContainer(ts[1]))),
             LAMBDA next : ApplyTextNodes(next, Tail(ts), batch, resolved))

\* element.getAttribute(name); <<>> stands for null
GetAttribute(a, e, name) ==
    IF name \in DOMAIN a.tattrs[e] THEN a.tattrs[e][name] ELSE <<>>

\* an apply phase that passes over the attributes
ApplyAttributeNever(a, e, name, batch, final) == a

\* the apply phase on one attribute of an element (lines 1207-1249)
ApplyAttribute(a, e, name, batch, final) ==
    IF ~IsRequested(a.as[e][name], batch) THEN a
    ELSE IF IsSuperseded(a.as[e][name], GetAttribute(a, e, name))
    THEN [a EXCEPT !.as[e][name] = SettledState(FALSE, GetAttribute(a, e, name))]
    ELSE IF final # <<>>
    THEN [a EXCEPT !.tattrs[e] = MapPut(@, name, final),
                   !.as[e][name] = SettledState(TRUE, final),
                   !.recs = IF IsObserved(e)
                            THEN Append(@, AttributeRecord(e, name, TRUE))
                            ELSE @]
    ELSE [a EXCEPT !.as[e][name] = SettledState(TRUE, GetAttribute(a, e, name))]

\* the apply phase for the attributes of one element (lines 1206-1250)
RECURSIVE ApplyAttributes(_, _, _, _, _)
ApplyAttributes(a, e, names, batch, resolved) ==
    IF names = <<>> THEN a
    ELSE Let(ApplyAttribute(a, e, names[1], batch,
                 FinalTranslation(a.as[e][names[1]], GetAttribute(a, e, names[1]),
                                  resolved, e)),
             LAMBDA next : ApplyAttributes(next, e, Tail(names), batch, resolved))

RECURSIVE ApplyElements(_, _, _, _)
ApplyElements(a, es, batch, resolved) ==
    IF es = <<>> THEN a
    ELSE Let(ApplyAttributes(a, es[1], SeqOfSet(DOMAIN a.as[es[1]]), batch,
                             resolved),
             LAMBDA next : ApplyElements(next, Tail(es), batch, resolved))

\* the apply phase of #translate (lines 1159-1251)
ApplyPhase(batch, resolved) ==
    Let(ApplyTextNodes([text |-> text, tattrs |-> tattrs, ns |-> nodeStates,
                        as |-> attrStates, recs |-> records],
                       SeqOfSet(DOMAIN nodeStates), batch, resolved),
        LAMBDA a1 : ApplyElements(a1, SeqOfSet(DOMAIN attrStates), batch, resolved))

(***************************************************************************)
(* Construction.                                                           *)
(***************************************************************************)
\* the contents the application gives to text nodes and attributes
SourceTexts == {<<"1">>, <<"2">>}

\* lines 78-94 of the constructor: #langCode and #region are first taken from
\* the locale argument (or navigator.language) and then assigned again from
\* defaultLangCode
ConstructorLocale(requested, navigatorLanguage, defaultLangCode) ==
    LET fromArgument == IF requested # NoLocale THEN requested ELSE navigatorLanguage
        afterDefault == defaultLangCode
    IN  afterDefault

\* TranslationCache.setLocale
SetLocale(d, loc) ==
    [d EXCEPT !.dbInstance = NoDb, !.dbPromise = 0, !.current = loc]

\* #applyLanguageMetadata for the locale loc, on the scan state m
RECURSIVE StampRoots(_, _, _, _)
StampRoots(m, roots, tag, direction) ==
    IF roots = <<>> THEN m
    ELSE LET target == IF roots[1] \in ShadowRoots THEN Host(roots[1]) ELSE roots[1]
         IN  Let(SetBothIfChanged(m, target, "lang", "data-transmut-lang", tag),
                 LAMBDA m1 :
                     Let(SetBothIfChanged(m1, target, "dir", "data-transmut-dir",
                                          direction),
                         LAMBDA m2 : StampRoots(m2, Tail(roots), tag, direction)))

\* #applyLanguageMetadata
ApplyLanguageMetadata(m, loc, roots) ==
    LET tag == ComposeLocaleTag(loc[1], loc[2])
        direction == ResolveDirection(loc[1])
    IN  Let(SetAttributeIfChanged(m, "html", "lang", tag),
            LAMBDA m1 :
            Let(SetAttributeIfChanged(m1, "html", "dir", direction),
            LAMBDA m2 :
            Let(SetAttributeIfChanged(m2, "html", "data-transmut-lang", tag),
            LAMBDA m3 :
            Let(SetAttributeIfChanged(m3, "html", "data-transmut-dir", direction),
            LAMBDA m4 : StampRoots(m4, SeqOfSet(roots), tag, direction)))))

\* the cycles after the callback or the constructor has taken the batch:
\* one more cycle when the batch is not empty.  watch is the set of text
\* nodes whose pending key the batch holds (bookkeeping).
Dispatch(cs, batch, ns) ==
    IF batch = <<>> THEN cs
    ELSE Append(cs, [NewCycle(batch) EXCEPT
                        !.watch = {t \in DOMAIN ns : IsRequested(ns[t], batch)}])

NoMarkers == [e \in Elements |-> [n \in MarkerNames |-> Absent]]
DefaultOptions ==
    [requireExplicitOptIn |-> FALSE, skipEditable |-> TRUE,
     setLanguageAttributes |-> TRUE, direction |-> "auto",
     directionOverrides |-> DEFAULT_DIRECTION_OVERRIDES]

\* the progress of TranslationCache.initialize(): pc is "hook" while the
\* invalidate callback has not returned, "deleting" while keys are being
\* deleted from the databases in pending, "ready" once it has resolved;
\* calls counts the invocations of the callback
\* (bookkeeping), names the databases whose deletions were started and
\* failed those whose deletion did not complete (bookkeeping), rejected
\* whether the callback rejected or threw (bookkeeping)
NoInvalidation ==
    [pc |-> "ready", keys |-> {}, pending |-> {}, calls |-> 0, names |-> {}, failed |-> {},
     rejected |-> FALSE]
Invalidating ==
    [pc |-> "hook", keys |-> {}, pending |-> {}, calls |-> 1, names |-> {}, failed |-> {},
     rejected |-> FALSE]

\* initialize() up to its first suspension: it returns at once without a
\* callback or without IndexedDB, and calls the callback otherwise
Initialize(available, invalidateFn) ==
    IF ~invalidateFn \/ ~available THEN NoInvalidation ELSE Invalidating

\* an initialize() that resolves as soon as the callback has returned
InitializedAfterHook(d) == d.init.pc # "hook"

\* #initPromise can resolve: initialize() has run to its end
Initialized(d) == d.init.pc = "ready"

\* what the constructor needs of its host and of its caller: the
\* MutationObserver class, document.body, navigator.language and the
\* getTranslations argument; indexedDB is what the cache needs
FullEnvironment ==
    [mutationObserver |-> TRUE, body |-> TRUE, language |-> TRUE,
     getTranslations |-> TRUE, indexedDB |-> TRUE]

\* a constructor that checks none of its preconditions
NoPreconditionError(env) == ""

\* lines 58-76 of the constructor: the message of the error it throws, ""
\* when it throws none
PreconditionError(env) ==
    IF ~env.mutationObserver
    THEN "MutationObserver is not available in this environment."
    ELSE IF ~env.body THEN "Unable to determine a root node to observe."
    ELSE IF ~env.language THEN "Unable to access navigator language settings."
    ELSE IF ~env.getTranslations THEN "A getTranslations function must be provided."
    ELSE ""

\* the state when the constructor returns, for a document, its arguments,
\* and the environment env0; budget is the number of external events the run
\* may take
ConstructedFor(text0, tattrs0, attrs0, options0, defaultLangCode, requested, expiryHours0, cache0, env0, invalidateFn0, budget) ==
    /\ text = text0
    /\ tattrs = tattrs0
    /\ options = options0
    /\ defaultLocale = defaultLangCode
    /\ requestedLocale = requested
    /\ locale = ConstructorLocale(requested, <<"en", "us">>, defaultLangCode)
    /\ expiryHours = expiryHours0
    /\ observedRoots = {"body"}
    /\ connected = TRUE
    /\ initDone = FALSE
    /\ cache = cache0
    /\ db = [available |-> env0.indexedDB, current |-> locale, dbInstance |-> NoDb,
             dbPromise |-> 0, init |-> Initialize(env0.indexedDB, invalidateFn0)]
    /\ online = TRUE
    /\ now = 0
    /\ partition = NoPartition
    /\ backend = NoDatabaseFile
    /\ detached = NoneDetached
    /\ \E m \in {ScanRoot([ns |-> EmptyMap, as |-> EmptyMap, batch |-> <<>>,
                           attrs |-> attrs0, recs |-> <<>>, adds |-> <<>>],
                          "body")} :
           /\ attrs = m.attrs
           /\ nodeStates = m.ns
           /\ attrStates = m.as
           /\ records = m.recs
           /\ transBatch = <<>>
           /\ cycles = Dispatch(<<>>, m.batch, m.ns)
           /\ history = [external |-> 0, adds |-> m.adds, localeCalls |-> 0,
                         env |-> env0, thrown |-> "", disconnected |-> FALSE,
                         budget |-> budget]

ConstructedWith(text0, tattrs0, attrs0, options0, defaultLangCode, requested, expiryHours0, cache0, env0, invalidateFn0) ==
    ConstructedFor(text0, tattrs0, attrs0, options0, defaultLangCode, requested, expiryHours0, cache0, env0, invalidateFn0, MaxExternal)

\* the state when the constructor returns in a host with IndexedDB, without
\* an invalidate callback
Constructed(text0, tattrs0, attrs0, options0, defaultLangCode, requested, expiryHours0, cache0) ==
    ConstructedWith(text0, tattrs0, attrs0, options0, defaultLangCode, requested, expiryHours0, cache0, FullEnvironment, FALSE)

Namespaces == {<<"en", "default">>, <<"es", "mx">>}
Locales == {<<"en", "">>, <<"es", "mx">>}
EmptyCache == [ns \in Namespaces |-> EmptyMap]
\* the databases an earlier session left: the one of the default locale
\* holds the key "a", stored an hour before the construction, and the key
\* "{}", stored just before it
OldCache ==
    [EmptyCache EXCEPT ![<<"en", "default">>] =
        [k \in {<<"a">>, PlaceholderToken} |->
            [value |-> Dictionary(<<"en", "">>, k),
             updatedAt |-> IF k = <<"a">> THEN 0 - TicksPerHour ELSE 0]]]

Init ==
    \E cache0 \in {OldCache}, hours \in {0, 1} :
        Constructed([t \in TextNodes |-> IF t = "t1" THEN <<"1">> ELSE <<"a">>],
                    [e \in Elements |-> IF e = "p" THEN [n \in {"title"} |-> <<"a">>]
                                        ELSE EmptyMap],
                    [NoMarkers EXCEPT !["p"]["data-transmut-attrs"] = "title"],
                    DefaultOptions, <<"en", "">>, <<"es", "mx">>, hours, cache0)

(***************************************************************************)
(* The application and the host.                                           *)
(***************************************************************************)
Spend == [history EXCEPT !.external = @ + 1]

\* the cycles, with text node t marked as changed in every cycle that is
\* still to apply and holds its pending key
MarkDirty(t) ==
    [c \in DOMAIN cycles |->
        IF cycles[c].pc \notin {"done", "failed"} /\ t \in cycles[c].watch
        THEN [cycles[c] EXCEPT !.dirty = @ \cup {t}]
        ELSE cycles[c]]

\* the application sets the content of a text node
SetText(t, v) ==
    /\ UNCHANGED <<backend, detached>>
    /\ history.external < history.budget
    /\ v # text[t]
    /\ text' = [text EXCEPT ![t] = v]
    /\ records' = IF IsObservedText(t)
                  THEN Append(records, CharacterDataRecord(t, FALSE))
                  ELSE records
    /\ cycles' = MarkDirty(t)
    /\ history' = Spend
    /\ UNCHANGED <<tattrs, attrs, options, defaultLocale, requestedLocale, locale,
                   expiryHours, nodeStates, attrStates, transBatch, observedRoots,
                   connected, initDone, cache, db, online, now, partition>>

\* the application sets a translatable attribute of an element
SetAttribute(e, name, v) ==
    /\ UNCHANGED <<backend, detached>>
    /\ history.external < history.budget
    /\ name \in DOMAIN tattrs[e]
    /\ v # tattrs[e][name]
    /\ tattrs' = [tattrs EXCEPT ![e][name] = v]
    /\ records' = IF IsObserved(e)
                  THEN Append(records, AttributeRecord(e, name, FALSE))
                  ELSE records
    /\ history' = Spend
    /\ UNCHANGED <<text, attrs, options, defaultLocale, requestedLocale, locale,
                   expiryHours, nodeStates, attrStates, transBatch, observedRoots,
                   connected, initDone, cycles, cache, db, online, now, partition>>

\* the queue of microtasks is empty: #initPromise has resolved (no
\* invalidateFn is configured, so initialize() returns at once), no
\* notification waits for the MutationObserver callback, and no cycle for the
\* continuation of its await of #initPromise.  The host runs a task (the
\* event of a request, a connectivity event) only then.
Settled ==
    /\ initDone
    /\ records = <<>>
    /\ \A c \in DOMAIN cycles : cycles[c].pc # "init"

\* the host goes offline or online
SetOnline(b) ==
    /\ UNCHANGED <<backend, detached>>
    /\ Settled
    /\ history.external < history.budget
    /\ b # online
    /\ online' = b
    /\ history' = Spend
    /\ UNCHANGED <<text, tattrs, attrs, options, defaultLocale, requestedLocale,
                   locale, expiryHours, nodeStates, attrStates, transBatch,
                   observedRoots, connected, records, initDone, cycles, cache, db,
                   now, partition>>

\* an hour passes
Tick ==
    /\ UNCHANGED <<backend, detached>>
    /\ Settled
    /\ history.external < history.budget
    /\ now' = now + 1
    /\ history' = Spend
    /\ UNCHANGED <<text, tattrs, attrs, options, defaultLocale, requestedLocale,
                   locale, expiryHours, nodeStates, attrStates, transBatch,
                   observedRoots, connected, records, initDone, cycles, cache, db,
                   online, partition>>

(***************************************************************************)
(* The engine's entry points.                                              *)
(***************************************************************************)
\* a changeLocale that takes its arguments as they are
NextLocaleAsGiven(langCode, region) == <<langCode, region>>

\* <<#langCode, #region>> after changeLocale(langCode, region)
NextLocale(langCode, region) ==
    <<IF langCode # "" THEN langCode ELSE defaultLocale[1],
      IF region # "" THEN region ELSE defaultLocale[2]>>

\* the body of changeLocale after its await (lines 203-211): the new
\* #langCode and #region, the cache after setLocale, the scan state after
\* #applyLanguageMetadata
ChangeLocaleBody(langCode, region) ==
    [locale |-> NextLocale(langCode, region),
     db |-> SetLocale(db, NextLocale(langCode, region)),
     m |-> IF options.setLanguageAttributes
           THEN ApplyLanguageMetadata(Scan, NextLocale(langCode, region),
                                      observedRoots)
           ELSE Scan]

\* #initPromise resolves: the changeLocale() call of the constructor, which
\* has been waiting for it, runs, and then removes the translating class
\* from the root (lines 104-107)
InitResolve ==
    /\ UNCHANGED <<backend, detached>>
    /\ ~initDone
    /\ Initialized(db)
    /\ initDone' = TRUE
    /\ \E r \in {ChangeLocaleBody("", "")} :
           /\ locale' = r.locale
           /\ db' = r.db
           /\ attrs' = r.m.attrs
           /\ records' = IF IsObserved("body")
                         THEN Append(r.m.recs, AttributeRecord("body", "class", TRUE))
                         ELSE r.m.recs
    /\ UNCHANGED <<text, tattrs, options, defaultLocale, requestedLocale,
                   expiryHours, nodeStates, attrStates, transBatch, observedRoots,
                   connected, cycles, cache, online, now, partition, history>>

\* the application calls changeLocale(langCode, region)
ChangeLocale(loc) ==
    /\ UNCHANGED <<backend, detached>>
    /\ history.thrown = ""
    /\ initDone
    /\ history.external < history.budget
    /\ \E r \in {ChangeLocaleBody(loc[1], loc[2])} :
           /\ locale' = r.locale
           /\ db' = r.db
           /\ attrs' = r.m.attrs
           /\ records' = r.m.recs
    /\ history' = [Spend EXCEPT !.localeCalls = 1]
    /\ UNCHANGED <<text, tattrs, options, defaultLocale, requestedLocale,
                   expiryHours, nodeStates, attrStates, transBatch, observedRoots,
                   connected, initDone, cycles, cache, online, now, partition>>

\* observeShadowRoot on a root not yet observed (lines 229-239): the scan
\* state after it
ObserveScan(roots, root) ==
    Let(IF options.setLanguageAttributes
        THEN ApplyLanguageMetadata(Scan, locale, roots)
        ELSE Scan,
        LAMBDA m0 : ScanRoot(m0, root))

\* the application calls observeShadowRoot(root)
ObserveShadowRoot(root) ==
    /\ UNCHANGED <<backend, detached>>
    /\ history.thrown = ""
    /\ history.external < history.budget
    /\ root \notin observedRoots
    /\ observedRoots' = observedRoots \cup {root}
    /\ \E m \in {ObserveScan(observedRoots \cup {root}, root)} :
           /\ attrs' = m.attrs
           /\ records' = m.recs
           /\ nodeStates' = m.ns
           /\ attrStates' = m.as
           /\ transBatch' = m.batch
           /\ history' = [Spend EXCEPT !.adds = m.adds]
    /\ connected' = TRUE
    /\ UNCHANGED <<text, tattrs, options, defaultLocale, requestedLocale, locale,
                   expiryHours, initDone, cycles, cache, db, online, now, partition>>

\* the callback's handling of the batch: cleared before the records are
\* processed (line 152)
CallbackScan(recs) ==
    ProcessRecords([Scan EXCEPT !.batch = <<>>, !.recs = <<>>], recs)

\* the cycles that have neither run their apply phase nor been abandoned
Live(cs) == {c \in DOMAIN cs : cs[c].pc \notin {"done", "failed"}}

\* whether node n is in a subtree that was taken out of the document
IsDetached(n) == Top(n) \in detached.nodes

\* the MutationObserver callback, with every record queued so far; the host
\* drops the transient registrations before it calls back, so what the
\* callback writes in a removed subtree is not reported
Deliver ==
    /\ UNCHANGED backend
    /\ records # <<>>
    /\ detached' = [detached EXCEPT !.transient = {}]
    /\ \E m \in {CallbackScan(records)} :
           /\ m.batch = <<>> \/ Cardinality(Live(cycles)) < MaxCycles
           /\ attrs' = m.attrs
           /\ records' = SelectSeq(m.recs, LAMBDA r : ~IsDetached(r.target))
           /\ nodeStates' = m.ns
           /\ attrStates' = m.as
           /\ transBatch' = <<>>
           /\ cycles' = Dispatch(cycles, m.batch, m.ns)
           /\ history' = [history EXCEPT !.adds = m.adds]
    /\ UNCHANGED <<text, tattrs, options, defaultLocale, requestedLocale, locale,
                   expiryHours, observedRoots, connected, initDone, cache, db,
                   online, now, partition>>

(***************************************************************************)
(* The steps of a translation cycle.  A cycle is suspended at its awaits:  *)
(*   init    await #initPromise                                            *)
(*   open    getDb: its own indexedDB.open request is pending              *)
(*   join    getDb: it returned the pending #dbPromise of another call     *)
(*   io      the store requests of its transaction are pending             *)
(*   lookup  the getTranslations call is pending                           *)
(* and ends done (the apply phase ran) or failed (#translate rejected).    *)
(***************************************************************************)
\* a cycle that has ended keeps its bookkeeping only
Finished(cyc, how, why) ==
    [NewCycle(<<>>) EXCEPT !.pc = how, !.phase = cyc.phase, !.failure = why,
                           !.calls = cyc.calls, !.dirty = cyc.dirty]

\* the cycle runs its apply phase with the resolved map and ends
FinishCycle(cs, c, cyc, resolved) ==
    \E a \in {ApplyPhase(cyc.batch, resolved)} :
        /\ text' = a.text
        /\ tattrs' = a.tattrs
        /\ nodeStates' = a.ns
        /\ attrStates' = a.as
        /\ records' = a.recs
        /\ cycles' = [cs EXCEPT ![c] = Finished(cyc, "done", "")]

\* the cycle stays suspended, or is abandoned
Suspend(cs, c, cyc) ==
    /\ cycles' = [cs EXCEPT ![c] = cyc]
    /\ UNCHANGED <<text, tattrs, nodeStates, attrStates, records>>

\* an event of the host is counted when the step is one
Count(isEvent) ==
    IF isEvent
    THEN history.external < history.budget /\ history' = Spend
    ELSE history' = history

\* TranslationCache.getDb for cycle c (lines 182-199): how the call goes on,
\* and the cache object after it
GetDb(c) ==
    IF ~db.available THEN [kind |-> "null", handle |-> NoDb, db |-> db]
    ELSE IF db.dbInstance # NoDb
    THEN [kind |-> "instance", handle |-> db.dbInstance, db |-> db]
    ELSE IF db.dbPromise # 0 THEN [kind |-> "join", handle |-> NoDb, db |-> db]
    ELSE [kind |-> "open", handle |-> ComposeDbName(db.current[1], db.current[2]),
          db |-> [db EXCEPT !.dbPromise = c]]

\* the cycle suspended in getDb, or at the requests it makes on the
\* database it got
Waiting(cyc, g, d) ==
    [cyc EXCEPT !.pc = CASE g.kind = "instance" -> "io"
                         [] g.kind = "join" -> "join"
                         [] OTHER -> "open",
                !.handle = g.handle,
                !.joined = IF g.kind = "join" THEN d.dbPromise ELSE 0,
                !.putAt = now]

\* #translate from the return of getCachedTranslations to its next await
\* (lines 1080-1133), or to its end when nothing is to be fetched
AfterRead(cs, c, cyc, cachedEntries) ==
    \E p \in {Partition(cyc.batch, cachedEntries, now, ~online)} :
        /\ partition' = [cycle |-> c, hits |-> cachedEntries, nowAt |-> now,
                         offline |-> ~online, fetchKeys |-> p.fetchKeys]
        /\ IF p.fetchKeys # <<>>
           THEN Suspend(cs, c, [cyc EXCEPT !.pc = "lookup", !.handle = NoDb,
                                           !.resolved = p.resolved,
                                           !.fetchKeys = p.fetchKeys,
                                           !.lookupLocale = locale,
                                           !.calls = @ + 1])
           ELSE FinishCycle(cs, c, cyc, p.resolved)

\* the cycle resumes from await #initPromise and calls getCachedTranslations
CycleStart(c) ==
    /\ UNCHANGED <<backend, detached>>
    /\ c \in DOMAIN cycles
    /\ cycles[c].pc = "init"
    /\ initDone
    /\ \E g \in {GetDb(c)} :
           /\ db' = g.db
           /\ IF g.kind = "null"
              THEN AfterRead(cycles, c, cycles[c], EmptyMap)
              ELSE /\ Suspend(cycles, c, Waiting(cycles[c], g, db))
                   /\ partition' = partition
    /\ UNCHANGED <<attrs, options, defaultLocale, requestedLocale, locale,
                   expiryHours, transBatch, observedRoots, connected, initDone,
                   cache, online, now, history>>

\* the cycles after the open request of cycle c has ended: the calls that
\* returned its promise get the database, or its rejection
AfterOpen(c, ok) ==
    [x \in DOMAIN cycles |->
        IF cycles[x].pc = "join" /\ cycles[x].joined = c
        THEN (IF ok THEN [cycles[x] EXCEPT !.pc = "io", !.joined = 0,
                                           !.handle = cycles[c].handle,
                                           !.putAt = now]
              ELSE Finished(cycles[x], "failed", "open"))
        ELSE cycles[x]]

\* the indexedDB.open request of cycle c ends (lines 209-241)
OpenDone(c, ok) ==
    /\ UNCHANGED <<backend, detached>>
    /\ c \in DOMAIN cycles
    /\ Settled
    /\ cycles[c].pc = "open"
    /\ Count(~ok)
    /\ IF ok
       THEN /\ db' = [db EXCEPT !.dbInstance = cycles[c].handle, !.dbPromise = 0]
            /\ Suspend(AfterOpen(c, TRUE), c,
                       [cycles[c] EXCEPT !.pc = "io", !.putAt = now])
            /\ partition' = partition
       ELSE /\ db' = [db EXCEPT !.dbPromise = 0]
            /\ IF cycles[c].phase = "read"
               THEN AfterRead(AfterOpen(c, FALSE), c, cycles[c], EmptyMap)
               ELSE /\ FinishCycle(AfterOpen(c, FALSE), c, cycles[c],
                                   Merge(cycles[c].resolved, cycles[c].fetched))
                    /\ partition' = partition
    /\ UNCHANGED <<attrs, options, defaultLocale, requestedLocale, locale,
                   expiryHours, transBatch, observedRoots, connected, initDone,
                   cache, online, now>>

\* the get requests of getCachedTranslations end (lines 89-119); a request
\* that fails leaves its key out
ReadDone(c, ok) ==
    /\ UNCHANGED <<backend, detached>>
    /\ c \in DOMAIN cycles
    /\ Settled
    /\ cycles[c].pc = "io"
    /\ cycles[c].phase = "read"
    /\ Count(~ok)
    /\ AfterRead(cycles, c, cycles[c],
                 IF ok THEN CachedEntries(cycles[c].handle, cycles[c].batch)
                 ELSE EmptyMap)
    /\ UNCHANGED <<attrs, options, defaultLocale, requestedLocale, locale,
                   expiryHours, transBatch, observedRoots, connected, initDone,
                   cache, db, online, now>>

\* the store after persistTranslations has committed the entries
Persisted(store, fetched, at) ==
    [k \in (DOMAIN store) \cup (DOMAIN fetched) |->
        IF k \in DOMAIN fetched THEN [value |-> fetched[k], updatedAt |-> at]
        ELSE store[k]]

\* how the transaction of persistTranslations may end (lines 135-166):
\* committed, aborted at commit, or with a put request that failed
PersistOutcomes == {"committed", "aborted", "putFailed"}

PersistDone(c, outcome) ==
    /\ UNCHANGED <<backend, detached>>
    /\ c \in DOMAIN cycles
    /\ Settled
    /\ cycles[c].pc = "io"
    /\ cycles[c].phase = "persist"
    /\ Count(outcome # "committed")
    /\ cache' = IF outcome = "committed"
                THEN [cache EXCEPT ![cycles[c].handle] =
                         Persisted(@, cycles[c].fetched, cycles[c].putAt)]
                ELSE cache
    /\ IF outcome = "putFailed"
       THEN Suspend(cycles, c, Finished(cycles[c], "failed", "put"))
       ELSE FinishCycle(cycles, c, cycles[c],
                        Merge(cycles[c].resolved, cycles[c].fetched))
    /\ UNCHANGED <<attrs, options, defaultLocale, requestedLocale, locale,
                   expiryHours, transBatch, observedRoots, connected, initDone,
                   db, online, now, partition>>

\* #translate from the return of getTranslations to its next await (lines
\* 1135-1157), or to its end: f is the value of fetched, g the way
\* persistTranslations' call of getDb goes on
AfterLookup(c, cyc, f, g) ==
    IF f.isNull
    THEN /\ Suspend(cycles, c, Finished(cyc, "failed", "payload"))
         /\ db' = db
    ELSE IF DOMAIN f.map = {} \/ g.kind = "null"
    THEN /\ FinishCycle(cycles, c, [cyc EXCEPT !.phase = "persist"],
                        Merge(cyc.resolved, f.map))
         /\ db' = db
    ELSE /\ Suspend(cycles, c,
                    Waiting([cyc EXCEPT !.fetched = f.map, !.phase = "persist"],
                            g, db))
         /\ db' = g.db

\* the getTranslations call of cycle c ends
LookupReturn(c, outcome) ==
    /\ UNCHANGED <<backend, detached>>
    /\ c \in DOMAIN cycles
    /\ cycles[c].pc = "lookup"
    /\ Count(outcome \in LookupFaults)
    /\ AfterLookup(c, cycles[c],
                   FetchedOf(outcome, cycles[c].lookupLocale, cycles[c].fetchKeys),
                   GetDb(c))
    /\ UNCHANGED <<attrs, options, defaultLocale, requestedLocale, locale,
                   expiryHours, transBatch, observedRoots, connected, initDone,
                   cache, online, now, partition>>

Next ==
    \/ \E t \in DOMAIN text, v \in SourceTexts : SetText(t, v)
    \/ \E v \in SourceTexts : SetAttribute("p", "title", v)
    \/ \E b \in BOOLEAN : SetOnline(b)
    \/ Tick
    \/ InitResolve
    \/ \E loc \in Locales : ChangeLocale(loc)
    \/ ObserveShadowRoot("sr")
    \/ Deliver
    \/ \E c \in DOMAIN cycles : CycleStart(c)
    \/ \E c \in DOMAIN cycles, ok \in BOOLEAN : OpenDone(c, ok)
    \/ \E c \in DOMAIN cycles, ok \in BOOLEAN : ReadDone(c, ok)
    \/ \E c \in DOMAIN cycles, o \in PersistOutcomes : PersistDone(c, o)
    \/ \E c \in DOMAIN cycles, o \in LookupOutcomes : LookupReturn(c, o)

Spec == Init /\ [][Next]_vars

\* a document in which section sec is marked data-transmut-skip and the
\* paragraph p inside it is marked data-transmut="include"
InitMarkers ==
    \E hours \in {0, 1} :
        Constructed([t \in TextNodes |-> IF t = "t1" THEN <<"1">> ELSE <<"a">>],
                    [e \in Elements |-> IF e = "p" THEN [n \in {"title"} |-> <<"a">>]
                                        ELSE EmptyMap],
                    [NoMarkers EXCEPT !["sec"]["data-transmut-skip"] = "",
                                      !["p"]["data-transmut"] = "include"],
                    DefaultOptions, <<"en", "">>, <<"es", "mx">>, hours, OldCache)

SpecMarkers == InitMarkers /\ [][Next]_vars

\* a document whose text node t1 holds a variable placeholder, named n or
\* 2; the section sec and the body carry the attributes that give the
\* variables their values, the paragraph p carries none
VariableTexts == {<<"$", "{", "n", "}">>, <<"$", "{", "2", "}">>}

InitVariables ==
    \E source \in VariableTexts, hours \in {0, 1} :
        Constructed([t \in TextNodes |-> IF t = "t1" THEN source ELSE <<"a">>],
                    [e \in Elements |->
                        CASE e = "p" -> [n \in {"title"} |-> <<"a">>]
                          [] e = "sec" -> [n \in {"data-transmut-n", "data-transmut-2"}
                                             |-> <<"5">>]
                          [] e = "body" -> [n \in {"data-transmut-n", "data-transmut-2"}
                                              |-> <<"0">>]
                          [] OTHER -> EmptyMap],
                    [NoMarkers EXCEPT !["p"]["data-transmut-attrs"] = "title"],
                    DefaultOptions, <<"en", "">>, <<"es", "mx">>, hours, OldCache)

SpecVariables == InitVariables /\ [][Next]_vars

(***************************************************************************)
(* The normaliser on its own: normalize, then reconstruct with a resolver  *)
(* that returns each fragment's raw text.  The text is held by t1; the     *)
(* engine is not running.                                                  *)
(***************************************************************************)
NumberLiterals == {<<"1">>, <<"2", "5">>, <<"1", ".", "5">>}
Placeholders == {<<"$", "{", "n", "}">>, <<"$", "{", " ", "x", "}">>}
Fillers == {<<>>, <<" ">>, <<"a", " ">>, <<"{", "}", " ">>}

\* the texts with exactly one numeric literal and one variable placeholder,
\* in either order, between fillers
RoundTripTexts ==
    {a \o x \o b \o y \o c :
        a \in Fillers, b \in Fillers \ {<<>>}, c \in {<<>>, <<" ", "b">>},
        <<x, y>> \in (NumberLiterals \X Placeholders) \cup (Placeholders \X NumberLiterals)}

InitRoundTrip ==
    /\ text \in {[t \in TextNodes |-> IF t = "t1" THEN source ELSE <<>>] :
                    source \in RoundTripTexts}
    /\ nodeStates = EmptyMap
    /\ tattrs = [e \in Elements |-> EmptyMap]
    /\ attrs = NoMarkers
    /\ options = DefaultOptions
    /\ defaultLocale = <<"en", "">>
    /\ requestedLocale = NoLocale
    /\ locale = <<"en", "">>
    /\ expiryHours = 0
    /\ attrStates = EmptyMap
    /\ transBatch = <<>>
    /\ observedRoots = {}
    /\ connected = FALSE
    /\ records = <<>>
    /\ initDone = FALSE
    /\ cycles = <<>>
    /\ cache = EmptyCache
    /\ db = [available |-> FALSE, current |-> <<"en", "">>, dbInstance |-> NoDb,
             dbPromise |-> 0, init |-> NoInvalidation]
    /\ online = TRUE
    /\ now = 0
    /\ partition = NoPartition
    /\ backend = NoDatabaseFile
    /\ detached = NoneDetached
    /\ history = [external |-> 0, adds |-> <<>>, localeCalls |-> 0,
                  env |-> FullEnvironment, thrown |-> "", disconnected |-> FALSE,
                  budget |-> MaxExternal]

\* normalize(text): the result is kept as the pending state of t1
NormalizeText ==
    /\ UNCHANGED <<backend, detached>>
    /\ "t1" \notin DOMAIN nodeStates
    /\ nodeStates' = MapPut(nodeStates, "t1", PendingState(text["t1"]))
    /\ UNCHANGED <<text, tattrs, attrs, options, defaultLocale, requestedLocale,
                   locale, expiryHours, attrStates, transBatch, observedRoots,
                   connected, records, initDone, cycles, cache, db, online, now,
                   partition, history>>

\* reconstruct(normalized, fragments, fragment => fragment.raw): the result
\* replaces the text of t1
ReconstructKey ==
    /\ UNCHANGED <<backend, detached>>
    /\ "t1" \in DOMAIN nodeStates
    /\ ~nodeStates["t1"].translated
    /\ text' = [text EXCEPT !["t1"] =
                   ReconstructFrom(nodeStates["t1"].pendingSource,
                       [i \in 1..Len(nodeStates["t1"].fragments) |->
                           nodeStates["t1"].fragments[i].raw])]
    /\ nodeStates' = [nodeStates EXCEPT !["t1"].translated = TRUE]
    /\ UNCHANGED <<tattrs, attrs, options, defaultLocale, requestedLocale,
                   locale, expiryHours, attrStates, transBatch, observedRoots,
                   connected, records, initDone, cycles, cache, db, online, now,
                   partition, history>>

NextRoundTrip == NormalizeText \/ ReconstructKey

SpecRoundTrip == InitRoundTrip /\ [][NextRoundTrip]_vars

(***************************************************************************)
(* Startup invalidation: the constructor is given an invalidate callback.  *)
(***************************************************************************)
\* the databases of an earlier session that used both locales
BothCaches ==
    [OldCache EXCEPT ![<<"es", "mx">>] =
        [k \in {<<"a">>} |->
            [value |-> Dictionary(<<"es", "mx">>, k), updatedAt |-> 0]]]

\* a document with the text "a" and a title that is not opted in
InitInvalidate ==
    ConstructedWith([t \in TextNodes |-> <<"a">>],
                    [e \in Elements |-> IF e = "p" THEN [n \in {"title"} |-> <<"a">>]
                                        ELSE EmptyMap],
                    NoMarkers, DefaultOptions, <<"en", "">>, <<"es", "mx">>, 1,
                    BothCaches, FullEnvironment, TRUE)

\* what the invalidate callback does: it rejects or throws (keys is then
\* what it rejects with), or it returns a list of keys, one of which may be
\* the empty string
HookOutcomes ==
    {[ok |-> FALSE, keys |-> {<<"a">>}]}
        \cup {[ok |-> TRUE, keys |-> K] :
                 K \in {{}, {<<>>}, {<<"a">>, <<>>}}}

\* a database of the origin that is not the engine's
ForeignDb == <<"keyval", "store">>

\* name.startsWith("transmut."): a database name of the model is the pair
\* <<language, region>> of "transmut.<language>.<region>", or ForeignDb
StartsWithPrefix(name) == name # ForeignDb

\* a collection that takes every enumerated database
CollectEveryDb(enumerated) ==
    enumerated \cup {ComposeDbName(db.current[1], db.current[2]),
                     ComposeDbName(defaultLocale[1], defaultLocale[2])}

\* collectTranslationDbNames: the databases the host enumerates, with those
\* of the current and of the default locale
CollectTranslationDbNames(enumerated) ==
    {name \in enumerated : StartsWithPrefix(name)}
        \cup {ComposeDbName(db.current[1], db.current[2]),
              ComposeDbName(defaultLocale[1], defaultLocale[2])}

\* the keys of an initialize() that takes what the callback rejects with
\* for its answer
SettledKeys(o) == {k \in o.keys : k # <<>>}

\* lines 51-62 and 71-73 of initialize(): the non-empty keys the callback
\* returned, none when it rejected or threw
InvalidationKeys(o) == IF o.ok THEN {k \in o.keys : k # <<>>} ELSE {}

\* the invalidate callback returns or rejects: initialize() filters the
\* keys, returns when none is left, and starts a deletion in every database
\* otherwise
HookReturn(o, enumerated) ==
    /\ UNCHANGED <<backend, detached>>
    /\ db.init.pc = "hook"
    /\ LET keys == InvalidationKeys(o)
       IN  db' = [db EXCEPT !.init =
                      IF keys = {} THEN [@ EXCEPT !.pc = "ready", !.rejected = ~o.ok]
                      ELSE [@ EXCEPT !.pc = "deleting", !.keys = keys,
                                     !.rejected = ~o.ok,
                                     !.pending = CollectTranslationDbNames(enumerated),
                                     !.names = CollectTranslationDbNames(enumerated)]]
    /\ UNCHANGED <<text, tattrs, attrs, options, defaultLocale, requestedLocale,
                   locale, expiryHours, nodeStates, attrStates, transBatch,
                   observedRoots, connected, records, initDone, cycles, cache,
                   online, now, partition, history>>

\* the entries of a database without the given keys
WithoutKeys(entries, keys) == [k \in (DOMAIN entries) \ keys |-> entries[k]]

\* deleteKeysFromDb(name, keys) ends: its transaction has completed, or the
\* open request or the transaction has failed; initialize() resolves with
\* the last of them
DeleteDone(name, ok) ==
    /\ UNCHANGED <<backend, detached>>
    /\ db.init.pc = "deleting"
    /\ name \in db.init.pending
    /\ cache' = IF ok THEN [cache EXCEPT ![name] = WithoutKeys(@, db.init.keys)]
                ELSE cache
    /\ db' = [db EXCEPT !.init.pending = @ \ {name},
                        !.init.failed = IF ok THEN @ ELSE @ \cup {name},
                        !.init.pc = IF db.init.pending = {name} THEN "ready" ELSE @]
    /\ UNCHANGED <<text, tattrs, attrs, options, defaultLocale, requestedLocale,
                   locale, expiryHours, nodeStates, attrStates, transBatch,
                   observedRoots, connected, records, initDone, cycles, online,
                   now, partition, history>>

NextInvalidate ==
    \/ Next
    \/ \E o \in HookOutcomes, enumerated \in {{}, DOMAIN cache \cup {ForeignDb}} : HookReturn(o, enumerated)
    \/ \E name \in DOMAIN cache, ok \in BOOLEAN : DeleteDone(name, ok)

SpecInvalidate == InitInvalidate /\ [][NextInvalidate]_vars

(***************************************************************************)
(* A host without IndexedDB: getDb returns null at once, so no request of  *)
(* the cache is ever in progress.                                          *)
(***************************************************************************)
InitNoStorage ==
    \E hours \in {0, 1} :
        ConstructedWith([t \in TextNodes |-> IF t = "t1" THEN <<"1">> ELSE <<"a">>],
                        [e \in Elements |-> IF e = "p" THEN [n \in {"title"} |-> <<"a">>]
                                            ELSE EmptyMap],
                        [NoMarkers EXCEPT !["p"]["data-transmut-attrs"] = "title"],
                        DefaultOptions, <<"en", "">>, <<"es", "mx">>, hours, EmptyCache,
                        [FullEnvironment EXCEPT !.indexedDB = FALSE], FALSE)

NextNoStorage ==
    \/ \E t \in TextNodes, v \in SourceTexts : SetText(t, v)
    \/ \E v \in SourceTexts : SetAttribute("p", "title", v)
    \/ \E b \in BOOLEAN : SetOnline(b)
    \/ Tick
    \/ InitResolve
    \/ \E loc \in Locales : ChangeLocale(loc)
    \/ ObserveShadowRoot("sr")
    \/ Deliver
    \/ \E c \in DOMAIN cycles : CycleStart(c)
    \/ \E c \in DOMAIN cycles, o \in LookupOutcomes : LookupReturn(c, o)

SpecNoStorage == InitNoStorage /\ [][NextNoStorage]_vars

(***************************************************************************)
(* Construction in a host, or by a caller, that lacks what it needs.       *)
(***************************************************************************)
\* the environments with IndexedDB
Environments ==
    {env \in [mutationObserver : BOOLEAN, body : BOOLEAN, language : BOOLEAN,
              getTranslations : BOOLEAN, indexedDB : {TRUE}] : TRUE}

\* the state when the constructor throws error: the fields assigned before
\* the throw belong to an object nobody holds; #observedRoots has the root
\* when the throw comes after line 68, no MutationObserver was created, the
\* cache was not constructed and the document is as it was
Thrown(text0, tattrs0, attrs0, options0, cache0, env0, error) ==
    /\ text = text0
    /\ tattrs = tattrs0
    /\ attrs = attrs0
    /\ options = options0
    /\ defaultLocale = NoLocale
    /\ requestedLocale = NoLocale
    /\ locale = NoLocale
    /\ expiryHours = 0
    /\ nodeStates = EmptyMap
    /\ attrStates = EmptyMap
    /\ transBatch = <<>>
    /\ observedRoots = IF env0.mutationObserver /\ env0.body THEN {"body"} ELSE {}
    /\ connected = FALSE
    /\ records = <<>>
    /\ initDone = FALSE
    /\ cycles = <<>>
    /\ cache = cache0
    /\ db = [available |-> env0.indexedDB, current |-> NoLocale, dbInstance |-> NoDb,
             dbPromise |-> 0,
             init |-> [pc |-> "none", keys |-> {}, pending |-> {}, calls |-> 0,
                       names |-> {}, failed |-> {}, rejected |-> FALSE]]
    /\ online = TRUE
    /\ now = 0
    /\ partition = NoPartition
    /\ backend = NoDatabaseFile
    /\ detached = NoneDetached
    /\ history = [external |-> 0, adds |-> <<>>, localeCalls |-> 0, env |-> env0,
                  thrown |-> error, disconnected |-> FALSE, budget |-> MaxExternal]

\* new TranslationObserver("en", "es-mx", getTranslations, hours) in
\* environment env0
Construct(env0, hours) ==
    LET text0 == [t \in TextNodes |-> IF t = "t1" THEN <<"1">> ELSE <<"a">>]
        tattrs0 == [e \in Elements |-> IF e = "p" THEN [n \in {"title"} |-> <<"a">>]
                                       ELSE EmptyMap]
        attrs0 == [NoMarkers EXCEPT !["p"]["data-transmut-attrs"] = "title"]
    IN  \E error \in {PreconditionError(env0)} :
            IF error = ""
            THEN ConstructedWith(text0, tattrs0, attrs0, DefaultOptions, <<"en", "">>,
                                 <<"es", "mx">>, hours, OldCache, env0, FALSE)
            ELSE Thrown(text0, tattrs0, attrs0, DefaultOptions, OldCache, env0, error)

InitConstruct == \E env \in Environments, hours \in {0, 1} : Construct(env, hours)

SpecConstruct == InitConstruct /\ [][Next]_vars

(***************************************************************************)
(* A document with an editable element and a script element.               *)
(***************************************************************************)
\* the textarea area holds the text "a" and has an opted-in title; the
\* script element, marked data-transmut="include", holds the text "a"; the
\* title of p is not opted in
InitExclusions ==
    \E hours \in {0, 1} :
        Constructed([t \in TextNodes \cup OptionalTextNodes |->
                        IF t = "t1" THEN <<"1">> ELSE <<"a">>],
                    [e \in Elements |-> IF e \in {"area", "p"}
                                        THEN [n \in {"title"} |-> <<"a">>]
                                        ELSE EmptyMap],
                    [NoMarkers EXCEPT !["area"]["data-transmut-attrs"] = "title",
                                      !["script"]["data-transmut"] = "include"],
                    DefaultOptions, <<"en", "">>, <<"es", "mx">>, hours, OldCache)

SpecExclusions == InitExclusions /\ [][Next]_vars

(***************************************************************************)
(* A document with a section that declares its locale.                     *)
(***************************************************************************)
\* the locale tags a section declares
DeclaredTags == {"es-mx", "fr"}

\* section sec declares its locale with lang or with data-transmut-locale
InitLocales ==
    \E name \in {"lang", "data-transmut-locale"}, tag \in DeclaredTags :
        Constructed([t \in TextNodes |-> IF t = "t1" THEN <<"1">> ELSE <<"a">>],
                    [e \in Elements |-> IF e = "p" THEN [n \in {"title"} |-> <<"a">>]
                                        ELSE EmptyMap],
                    [NoMarkers EXCEPT !["p"]["data-transmut-attrs"] = "title",
                                      !["sec"][name] = tag],
                    DefaultOptions, <<"en", "">>, <<"es", "mx">>, 1, OldCache)

SpecLocales == InitLocales /\ [][Next]_vars

(***************************************************************************)
(* A default locale with a region: new TranslationObserver("en-US", ...).  *)
(***************************************************************************)
InitRegion ==
    \E setLanguageAttributes \in BOOLEAN :
        Constructed([t \in TextNodes |-> IF t = "t1" THEN <<"1">> ELSE <<"a">>],
                    [e \in Elements |-> IF e = "p" THEN [n \in {"title"} |-> <<"a">>]
                                        ELSE EmptyMap],
                    [NoMarkers EXCEPT !["p"]["data-transmut-attrs"] = "title"],
                    [DefaultOptions EXCEPT !.setLanguageAttributes = setLanguageAttributes],
                    <<"en", "us">>, <<"es", "mx">>, 1,
                    [ns \in Namespaces \cup {<<"en", "us">>} |-> EmptyMap])

SpecRegion == InitRegion /\ [][Next]_vars

(***************************************************************************)
(* Direction options: options.direction and options.directionOverrides.    *)
(***************************************************************************)
\* the direction options of the model: an override for the tag es-mx (as in
\* docs/observer-usage.md), one for the language es, one that replaces the
\* built-in entry of ar, and an explicit direction
DirectionConfigs ==
    {[direction |-> "auto", directionOverrides |-> [l \in {"ar", "es-mx"} |-> "rtl"]],
     [direction |-> "auto", directionOverrides |-> [l \in {"ar", "es"} |-> "rtl"]],
     [direction |-> "auto", directionOverrides |-> [l \in {"ar"} |-> "ltr"]],
     [direction |-> "rtl", directionOverrides |-> DEFAULT_DIRECTION_OVERRIDES]}

\* the default locale is en or ar
InitDirection ==
    \E config \in DirectionConfigs, defaultLangCode \in {<<"en", "">>, <<"ar", "">>} :
        Constructed([t \in TextNodes |-> IF t = "t1" THEN <<"1">> ELSE <<"a">>],
                    [e \in Elements |-> IF e = "p" THEN [n \in {"title"} |-> <<"a">>]
                                        ELSE EmptyMap],
                    NoMarkers,
                    [DefaultOptions EXCEPT !.direction = config.direction,
                                           !.directionOverrides = config.directionOverrides],
                    defaultLangCode, <<"es", "mx">>, 1,
                    [ns \in Namespaces \cup {<<"ar", "default">>} |-> EmptyMap])

SpecDirection == InitDirection /\ [][Next]_vars

(***************************************************************************)
(* disconnect().                                                           *)
(***************************************************************************)
\* TranslationCache.dispose
Dispose(d) == [d EXCEPT !.dbInstance = NoDb, !.dbPromise = 0]

\* the application calls disconnect(): MutationObserver.disconnect also
\* drops the records that were not delivered
Disconnect ==
    /\ UNCHANGED backend
    /\ detached' = [detached EXCEPT !.transient = {}]
    /\ history.thrown = ""
    /\ ~history.disconnected
    /\ history.external < history.budget
    /\ connected' = FALSE
    /\ records' = <<>>
    /\ transBatch' = <<>>
    /\ nodeStates' = EmptyMap
    /\ attrStates' = EmptyMap
    /\ observedRoots' = {}
    /\ db' = Dispose(db)
    /\ history' = [Spend EXCEPT !.disconnected = TRUE]
    /\ UNCHANGED <<text, tattrs, attrs, options, defaultLocale, requestedLocale,
                   locale, expiryHours, initDone, cycles, cache, online, now,
                   partition>>

NextDisconnect == Next \/ Disconnect

SpecDisconnect == Init /\ [][NextDisconnect]_vars

(***************************************************************************)
(* The SQLite backend: upsertTranslations and loadTranslations on the      *)
(* table translations, whose rows are                                      *)
(* [lang, region, locale, key, value, edited, metadata, updated_at].         *)
(***************************************************************************)
MaxUpserts == 2

\* SQL NULL, and a metadata argument that is undefined or null: no text,
\* the empty string included, equals it
Null == <<"NULL">>

\* String.prototype.toLowerCase and toUpperCase on the letters of the model
LowerCaseOf == ("F" :> "f") @@ ("R" :> "r") @@ ("C" :> "c") @@ ("A" :> "a")
UpperCaseOf == ("f" :> "F") @@ ("r" :> "R") @@ ("c" :> "C") @@ ("a" :> "A")
ToLowerCase(s) == [i \in 1..Len(s) |-> IF s[i] \in DOMAIN LowerCaseOf THEN LowerCaseOf[s[i]] ELSE s[i]]
ToUpperCase(s) == [i \in 1..Len(s) |-> IF s[i] \in DOMAIN UpperCaseOf THEN UpperCaseOf[s[i]] ELSE s[i]]

\* normalizeLang: <<>> stands for the thrown "A language code is required."
NormalizeLang(lang) == ToLowerCase(Trim(lang))

NormalizeRegion(region) == ToUpperCase(Trim(region))

ComposeBackendLocaleTag(lang, region) == IF region # <<>> THEN lang \o <<"-">> \o region ELSE lang

\* normalizeLocale of a { langCode, region } argument
NormalizeLocale(loc) ==
    Let(NormalizeLang(loc[1]), LAMBDA lang :
    Let(NormalizeRegion(loc[2]), LAMBDA region :
        [lang |-> lang, region |-> region, tag |-> ComposeBackendLocaleTag(lang, region)]))

\* the rows of table with the primary key (lang, region, key)
RowsAt(table, lang, region, key) ==
    {r \in table : r.lang = lang /\ r.region = region /\ r.key = key}

\* a conflict clause that replaces the stored row
Excluded(old, excluded) == excluded

\* ON CONFLICT(lang, region, key) DO UPDATE SET ...
OnConflict(old, excluded) ==
    [old EXCEPT !.value = excluded.value,
                !.edited = IF old.edited = 1 THEN 1 ELSE excluded.edited,
                !.metadata = IF excluded.metadata = Null THEN old.metadata
                             ELSE excluded.metadata,
                !.updated_at = excluded.updated_at]

\* INSERT ... ON CONFLICT, for one row
RunStatement(table, row) ==
    Let(RowsAt(table, row.lang, row.region, row.key), LAMBDA conflict :
        IF conflict = {} THEN table \cup {row}
        ELSE (table \ conflict) \cup {OnConflict(old, row) : old \in conflict})

\* serializeMetadata of a string or of nothing
SerializeMetadata(value) == value

\* the loop of upsertTranslations over the records, inside one transaction
RECURSIVE UpsertRecords(_, _, _, _, _)
UpsertRecords(table, loc, entries, markAsEdited, updatedAt) ==
    IF entries = <<>> THEN table
    ELSE Let(entries[1], LAMBDA entry :
         Let(Trim(entry.key), LAMBDA trimmedKey :
             IF trimmedKey = <<>>
             THEN UpsertRecords(table, loc, Tail(entries), markAsEdited, updatedAt)
             ELSE UpsertRecords(
                      RunStatement(table,
                          [lang |-> loc.lang, region |-> loc.region, locale |-> loc.tag,
                           key |-> trimmedKey, value |-> entry.value,
                           edited |-> IF markAsEdited \/ entry.edited THEN 1 ELSE 0,
                           metadata |-> SerializeMetadata(entry.metadata),
                           updated_at |-> updatedAt]),
                      loc, Tail(entries), markAsEdited, updatedAt)))

\* toRecordArray of an array argument
ToRecordArray(translations) == SelectSeq(translations, LAMBDA entry : Trim(entry.key) # <<>>)

\* what an upsert left behind: whether it rejected, whether it ran a
\* statement, and whether any record it ran carried the edited flag or
\* metadata
Returned(threw, entries, markAsEdited) ==
    [call |-> "upsert", threw |-> threw, value |-> <<>>,
     wrote |-> ~threw /\ entries # <<>>,
     flagged |-> markAsEdited \/ \E i \in DOMAIN entries : entries[i].edited,
     described |-> \E i \in DOMAIN entries : entries[i].metadata # Null]

\* upsertTranslations({ locale, translations, markAsEdited, touchedAt })
UpsertTranslations(ofLocale, translations, markAsEdited, touchedAt) ==
    /\ backend.upserts < MaxUpserts
    /\ LET entries == ToRecordArray(translations)
           loc == NormalizeLocale(ofLocale)
       IN  backend' =
               IF entries = <<>>
               THEN [backend EXCEPT !.upserts = @ + 1,
                                    !.returned = Returned(FALSE, entries, markAsEdited)]
               ELSE IF loc.lang = <<>>
               THEN [backend EXCEPT !.upserts = @ + 1,
                                    !.returned = Returned(TRUE, entries, markAsEdited)]
               ELSE [backend EXCEPT
                        !.upserts = @ + 1,
                        !.schema = TRUE,
                        !.translations =
                            UpsertRecords(@, loc, entries, markAsEdited, touchedAt),
                        !.returned = Returned(FALSE, entries, markAsEdited)]
    /\ UNCHANGED <<text, tattrs, attrs, options, defaultLocale, requestedLocale,
                   locale, expiryHours, nodeStates, attrStates, transBatch,
                   observedRoots, connected, records, initDone, cycles, cache, db,
                   online, now, partition, history,
                   detached>>

\* the property names every object literal inherits from Object.prototype
\* (those a text of the model can be)
ObjectPrototypeKeys == {<<"v", "a", "l", "u", "e", "O", "f">>}

\* key in object, for an object literal
In(key, object) == key \in DOMAIN object \/ key \in ObjectPrototypeKeys

\* collectTranslations(db, lang, region, keys)
RECURSIVE CollectTranslations(_, _, _, _)
CollectTranslations(table, lang, region, keys) ==
    IF keys = <<>> THEN EmptyMap
    ELSE Let(CollectTranslations(table, lang, region, SubSeq(keys, 1, Len(keys) - 1)),
             LAMBDA result :
         Let(RowsAt(table, lang, region, keys[Len(keys)]), LAMBDA rows :
             IF rows = {} THEN result
             ELSE MapPut(result, keys[Len(keys)], (CHOOSE r \in rows : TRUE).value)))

\* { ...fallback, ...primary }
Spread(fallback, primary) ==
    [k \in DOMAIN fallback \cup DOMAIN primary |->
        IF k \in DOMAIN primary THEN primary[k] ELSE fallback[k]]

\* what loadTranslations resolves to (nothing when normalizeLocale throws)
LoadResult(file, ofLocale, keys, fallbackToBaseLocale) ==
    IF keys = <<>> THEN EmptyMap
    ELSE Let(NormalizeLocale(ofLocale), LAMBDA loc :
         IF loc.lang = <<>> THEN EmptyMap
         ELSE IF ~file.schema THEN EmptyMap
         ELSE Let(CollectTranslations(file.translations, loc.lang, loc.region, keys),
                  LAMBDA primary :
              IF ~fallbackToBaseLocale \/ loc.region = <<>> THEN primary
              ELSE Let(SelectSeq(keys, LAMBDA key : ~In(key, primary)), LAMBDA missing :
                   IF missing = <<>> THEN primary
                   ELSE Spread(CollectTranslations(file.translations, loc.lang, <<>>,
                                                   missing),
                               primary))))

\* loadTranslations({ locale, keys, fallbackToBaseLocale }); the provider of
\* createSqliteTranslationProvider makes the same call
LoadTranslations(ofLocale, keys, fallbackToBaseLocale) ==
    /\ backend' = [backend EXCEPT !.returned =
                      [call |-> "load",
                       threw |-> keys # <<>> /\ NormalizeLocale(ofLocale).lang = <<>>,
                       value |-> LoadResult(backend, ofLocale, keys, fallbackToBaseLocale),
                       wrote |-> FALSE, flagged |-> FALSE, described |-> FALSE]]
    /\ UNCHANGED <<text, tattrs, attrs, options, defaultLocale, requestedLocale,
                   locale, expiryHours, nodeStates, attrStates, transBatch,
                   observedRoots, connected, records, initDone, cycles, cache, db,
                   online, now, partition, history,
                   detached>>

\* the arguments of the backend calls of the model
BackendKeys == {<<"a">>, <<"v", "a", "l", "u", "e", "O", "f">>}
BackendLocales == {<<<<"f", "r">>, <<>>>>, <<<<"F", "R", " ">>, <<"c", "a">>>>}
LoadLocales == BackendLocales \cup {<<<<" ">>, <<>>>>}
BackendEntries ==
    {[key |-> <<"a">>, value |-> v, edited |-> e, metadata |-> m] :
        v \in {<<"x">>, <<"y">>}, e \in BOOLEAN, m \in {Null, <<"h">>}}
        \cup {[key |-> <<"v", "a", "l", "u", "e", "O", "f">>, value |-> <<"x">>,
                edited |-> FALSE, metadata |-> Null]}
BackendBatches ==
    {<<entry>> : entry \in BackendEntries}
        \cup {<<[key |-> <<" ">>, value |-> <<"x">>, edited |-> FALSE, metadata |-> Null]>>}
        \cup {<<[key |-> <<"a">>, value |-> <<"x">>, edited |-> FALSE, metadata |-> Null],
                [key |-> <<" ", "a">>, value |-> <<"y">>, edited |-> e, metadata |-> Null]>> :
                 e \in BOOLEAN}
KeyLists == {<<>>, <<<<"a">>, <<"v", "a", "l", "u", "e", "O", "f">>>>}

InitBackend ==
    Constructed([t \in TextNodes |-> <<"a">>], [e \in Elements |-> EmptyMap], NoMarkers,
                DefaultOptions, <<"en", "">>, NoLocale, 0, EmptyCache)

NextBackend ==
    \/ \E loc \in BackendLocales, batch \in BackendBatches, markAsEdited \in BOOLEAN, touchedAt \in 1..2 : UpsertTranslations(loc, batch, markAsEdited, touchedAt)
    \/ \E loc \in LoadLocales, keys \in KeyLists, fallback \in BOOLEAN : LoadTranslations(loc, keys, fallback)

SpecBackend == InitBackend /\ [][NextBackend]_vars

(***************************************************************************)
(* A restart: an earlier session has cached translations for both locales. *)
(***************************************************************************)
\* the databases of both locales hold the keys "a" and "{}", each with the
\* translation of its locale, written by cycles of the earlier session
RestartCache ==
    [ns \in Namespaces |->
        [k \in {<<"a">>, PlaceholderToken} |->
            [value |-> Dictionary(IF ns = <<"es", "mx">> THEN <<"es", "mx">>
                                  ELSE <<"en", "">>, k),
             updatedAt |-> 0]]]

\* the run may take one external event more than the others: a change of
\* locale and a later change of content
InitRestart ==
    ConstructedFor([t \in TextNodes |-> <<"a">>],
                   [e \in Elements |-> IF e = "p" THEN [n \in {"title"} |-> <<"a">>]
                                       ELSE EmptyMap],
                   NoMarkers, DefaultOptions, <<"en", "">>, <<"es", "mx">>, 0,
                   RestartCache, FullEnvironment, FALSE, MaxExternal + 1)

SpecRestart == InitRestart /\ [][Next]_vars

(***************************************************************************)
(* The application takes a subtree out of the document.                    *)
(***************************************************************************)
Removable == {"p"}

ChildListRecord(n, list) ==
    [type |-> "childList", target |-> n, name |-> list, own |-> FALSE]

\* parent.removeChild(n): the observer of the parent is told, and stays
\* registered on n until its next callback
RemoveChild(n) ==
    /\ UNCHANGED backend
    /\ history.external < history.budget
    /\ ~IsDetached(n)
    /\ records' = IF IsObserved(ParentElement(n))
                  THEN Append(records, ChildListRecord(n, "removed"))
                  ELSE records
    /\ detached' = [nodes |-> detached.nodes \cup {n},
                    transient |-> IF IsObserved(ParentElement(n))
                                  THEN detached.transient \cup {n}
                                  ELSE detached.transient]
    /\ history' = Spend
    /\ UNCHANGED <<text, tattrs, attrs, options, defaultLocale, requestedLocale,
                   locale, expiryHours, nodeStates, attrStates, transBatch,
                   observedRoots, connected, initDone, cycles, cache, db, online,
                   now, partition>>

\* the run may take one external event more than the others: a removal and
\* a change inside the removed subtree
InitRemoval ==
    ConstructedFor([t \in TextNodes |-> <<"a">>],
                   [e \in Elements |-> IF e = "p" THEN [n \in {"title"} |-> <<"a">>]
                                       ELSE EmptyMap],
                   [NoMarkers EXCEPT !["p"]["data-transmut-attrs"] = "title"],
                   DefaultOptions, <<"en", "">>, <<"es", "mx">>, 0, EmptyCache,
                   FullEnvironment, FALSE, MaxExternal + 1)

NextRemoval ==
    \/ Next
    \/ \E n \in Removable : RemoveChild(n)

SpecRemoval == InitRemoval /\ [][NextRemoval]_vars

(***************************************************************************)
(* A lookup function that has nothing new: it answers every key with the   *)
(* empty string, or with the key itself.                                   *)
(***************************************************************************)
Untranslated == {"blank", "same"}

\* the map such a call resolves to
FetchedUntranslated(kind, keys) ==
    [k \in Range(keys) |-> IF kind = "blank" THEN <<>> ELSE k]

\* the getTranslations call of cycle c ends with such a map; persistTranslations
\* returns at once when no value is a non-empty string (cache.ts 123-128)
LookupReturnsUntranslated(c, kind) ==
    /\ UNCHANGED <<backend, detached>>
    /\ c \in DOMAIN cycles
    /\ cycles[c].pc = "lookup"
    /\ history' = history
    /\ IF kind = "blank"
       THEN /\ FinishCycle(cycles, c, [cycles[c] EXCEPT !.phase = "persist"],
                           Merge(cycles[c].resolved,
                                 FetchedUntranslated(kind, cycles[c].fetchKeys)))
            /\ db' = db
       ELSE AfterLookup(c, cycles[c],
                        [isNull |-> FALSE,
                         map |-> FetchedUntranslated(kind, cycles[c].fetchKeys)],
                        GetDb(c))
    /\ UNCHANGED <<attrs, options, defaultLocale, requestedLocale, locale,
                   expiryHours, transBatch, observedRoots, connected, initDone,
                   cache, online, now, partition>>

NextUntranslated ==
    \/ Next
    \/ \E c \in DOMAIN cycles, kind \in Untranslated : LookupReturnsUntranslated(c, kind)

SpecUntranslated == Init /\ [][NextUntranslated]_vars

(***************************************************************************)
(* Reconstruction with two fragments: the text of t1 holds a variable and  *)
(* a number, and the section may carry the variable's value.               *)
(***************************************************************************)
\* the values of data-transmut-n on the section; <<>> stands for no attribute
VariableValues == {<<>>, <<"5">>, <<"{", "}">>}

InitPositional ==
    \E value \in VariableValues :
        Constructed([t \in TextNodes |->
                        IF t = "t1" THEN <<"$", "{", "n", "}", " ", "1">> ELSE <<"a">>],
                    [e \in Elements |->
                        CASE e = "sec" /\ value # <<>> -> [n \in {"data-transmut-n"} |-> value]
                          [] e = "p" -> [n \in {"title"} |-> <<"a">>]
                          [] OTHER -> EmptyMap],
                    NoMarkers, DefaultOptions, <<"en", "">>, <<"es", "mx">>, 0,
                    EmptyCache)

SpecPositional == InitPositional /\ [][Next]_vars

(***************************************************************************)
(* Opting in: the section and the paragraph may carry data-transmut, and   *)
(* the observer is built with or without requireExplicitOptIn.  The        *)
(* textarea and the script element hold text.                              *)
(***************************************************************************)
SectionDirectives == {Absent, "inherit", "skip"}
ParagraphDirectives == {Absent, "inherit", "include"}

InitOptIn ==
    \E optIn \in BOOLEAN, ofSection \in SectionDirectives, ofParagraph \in ParagraphDirectives :
        Constructed([t \in TextNodes \cup OptionalTextNodes |-> <<"a">>],
                    [e \in Elements |-> IF e = "p" THEN [n \in {"title"} |-> <<"a">>]
                                        ELSE EmptyMap],
                    [NoMarkers EXCEPT !["sec"]["data-transmut"] = ofSection,
                                      !["p"]["data-transmut"] = ofParagraph],
                    [DefaultOptions EXCEPT !.requireExplicitOptIn = optIn],
                    <<"en", "">>, <<"es", "mx">>, 0, EmptyCache)

SpecOptIn == InitOptIn /\ [][Next]_vars

(***************************************************************************)
(* A database written by an earlier version: the store of the default      *)
(* locale holds the translation of "a" as a plain string.                  *)
(***************************************************************************)
LegacyValue == <<"x">>

LegacyCache ==
    [EmptyCache EXCEPT ![<<"en", "default">>] =
        [k \in {<<"a">>} |-> [value |-> LegacyValue, updatedAt |-> StoredAsString]]]

InitLegacy ==
    \E hours \in {0, 1} :
        Constructed([t \in TextNodes |-> <<"a">>],
                    [e \in Elements |-> IF e = "p" THEN [n \in {"title"} |-> <<"a">>]
                                        ELSE EmptyMap],
                    [NoMarkers EXCEPT !["p"]["data-transmut-attrs"] = "title"],
                    DefaultOptions, <<"en", "">>, <<"es", "mx">>, hours, LegacyCache)

SpecLegacy == InitLegacy /\ [][Next]_vars

(***************************************************************************)
(* Properties.                                                             *)
(***************************************************************************)
\* the elements that carry a skip marker: data-transmut-skip, or
\* data-transmut with a skip value
IsSkipMarked(e) ==
    \/ HasSkipAttribute(attrs, e)
    \/ attrs[e]["data-transmut"] # Absent
       /\ ParseTransmutDirective(attrs[e]["data-transmut"]) = "skip"

\* element e is inside the subtree of a skip-marked element
UnderSkip(e) ==
    \E i \in 1..Len(AncestorsOrSelf(e)) : IsSkipMarked(AncestorsOrSelf(e)[i])

\* C3: nothing in the subtree of an element that carries a skip marker is
\* tracked (and so enqueued or modified) by the engine, whatever markers the
\* descendants carry: no text node whose container is in such a subtree has
\* a node state, and no element of such a subtree has attribute states.
C3_SkipPropagates ==
    /\ \A t \in DOMAIN nodeStates : ~UnderSkip(GetTextContainer(t))
    /\ \A e \in DOMAIN attrStates : ~UnderSkip(e)

\* C6: no outcome of the lookup call makes the cycle end without its apply
\* phase: a cycle is never abandoned at the handling of the payload.
C6_LookupOutcomeNotFatal ==
    \A c \in DOMAIN cycles :
        cycles[c].pc = "failed" => cycles[c].failure # "payload"

\* C7: no failure of the cache makes the cycle end without its apply phase:
\* a cycle is never abandoned at the opening of the database or at a put
\* request.
C7_CacheFailureNotFatal ==
    \A c \in DOMAIN cycles :
        cycles[c].pc = "failed" => cycles[c].failure \notin {"open", "put"}

\* C8: as long as changeLocale has not been called by the application, the
\* engine's target locale and the namespace of its cache are those of the
\* initialLocale argument of the constructor.
C8_InitialLocaleIsTarget ==
    (requestedLocale # NoLocale /\ history.localeCalls = 0)
        => /\ locale = requestedLocale
           /\ db.current = requestedLocale

\* C9: a key enqueued by observeShadowRoot is not discarded before it is
\* dispatched: in every step, each key of #transBatch stays in it or is in
\* the batch of a cycle that the step starts.
C9_EnqueuedKeysAreDispatched ==
    [][\A i \in 1..Len(transBatch) :
          \/ transBatch[i] \in Range(transBatch')
          \/ \E c \in (DOMAIN cycles') \ (DOMAIN cycles) :
                 transBatch[i] \in Range(cycles'[c].batch)]_vars

NoDuplicates(seq) == \A i, j \in 1..Len(seq) : seq[i] = seq[j] => i = j

\* the cycles that a step starts
Started == (DOMAIN cycles') \ (DOMAIN cycles)

\* what a scan that enqueued the keys adds may start: no cycle when it
\* enqueued nothing, and otherwise one cycle whose batch holds each of the
\* keys once
CoalescedInto(adds, started) ==
    /\ Len(started) =< 1
    /\ Len(started) = 0 <=> adds = <<>>
    /\ \A i \in 1..Len(started) :
           /\ NoDuplicates(started[i].batch)
           /\ Range(started[i].batch) = Range(adds)

\* whether key k of a partition is a hit that is not stale
IsFreshHit(p, k) ==
    /\ k \in DOMAIN p.hits
    /\ ~(expiryHours > 0
         /\ p.nowAt - p.hits[k].updatedAt >= expiryHours * TicksPerHour)

\* C10: the initial scan and each delivery of mutation notifications start
\* at most one cycle, whose batch is the duplicate-free set of the keys
\* enqueued during it; a cycle calls the lookup function at most once, with
\* duplicate-free keys taken from its batch, and not at all when every key
\* of its batch is a cache hit that is not stale.
C10_Coalescing ==
    /\ CoalescedInto(history.adds, cycles)
    /\ [](\A c \in DOMAIN cycles :
             /\ cycles[c].calls =< 1
             /\ cycles[c].pc = "lookup"
                    => /\ cycles[c].fetchKeys # <<>>
                       /\ NoDuplicates(cycles[c].fetchKeys)
                       /\ Range(cycles[c].fetchKeys) \subseteq Range(cycles[c].batch))
    /\ [][/\ Deliver =>
                 CoalescedInto(history'.adds,
                               SubSeq(cycles', Len(cycles) + 1, Len(cycles')))
          /\ \A c \in DOMAIN cycles :
                 (cycles'[c].calls # cycles[c].calls
                  \/ (partition' # partition /\ partition'.cycle = c))
                     => /\ partition'.cycle = c
                        /\ cycles[c].calls = 0
                        /\ cycles'[c].calls = 1
                              <=> cycles'[c].pc = "lookup"
                        /\ cycles'[c].pc = "lookup"
                              => cycles'[c].fetchKeys = partition'.fetchKeys
                        /\ (\A k \in Range(cycles[c].batch) :
                                IsFreshHit(partition', k))
                              => cycles'[c].calls = 0]_vars

\* a delivery has coalesced a key that was enqueued twice into the batch of
\* one cycle, and a cycle has called the lookup function
C10_Witness ==
    /\ ~NoDuplicates(history.adds)
    /\ Len(cycles) > 1
    /\ \E c \in DOMAIN cycles : cycles[c].pc = "lookup"

\* the step in which cycle c runs its apply phase
ApplyStep(c) == cycles[c].pc \notin {"done", "failed"} /\ cycles'[c].pc = "done"

\* a change of the content of text node t is queued for the observer
IsQueuedChange(t) ==
    \E i \in 1..Len(records) :
        records[i].type = "characterData" /\ records[i].target = t

OwnWritesOnly == \A i \in 1..Len(records) : records[i].own

\* a tracked value is translated and holds the content last applied
HoldsApplied(state, content) == state.translated /\ state.lastText = content

AllApplied ==
    /\ \A t \in DOMAIN nodeStates : HoldsApplied(nodeStates[t], text[t])
    /\ \A e \in DOMAIN attrStates : \A n \in DOMAIN attrStates[e] :
           /\ n \in DOMAIN tattrs[e]
           /\ HoldsApplied(attrStates[e][n], tattrs[e][n])

\* C2: when every tracked value has been applied and holds the content last
\* applied, the delivery of the notifications of the engine's own writes
\* enqueues no key, starts no cycle, writes nothing to the tree and changes
\* no tracked state; and in every delivery a tracked value that is translated
\* and holds the content last applied keeps its state.
C2_OwnWritesAreNoOp ==
    [][Deliver =>
          /\ (OwnWritesOnly /\ AllApplied)
                 => /\ history'.adds = <<>>
                    /\ cycles' = cycles
                    /\ text' = text /\ tattrs' = tattrs /\ attrs' = attrs
                    /\ nodeStates' = nodeStates /\ attrStates' = attrStates
                    /\ records' = <<>>
          /\ \A t \in DOMAIN nodeStates :
                 HoldsApplied(nodeStates[t], text[t])
                     => t \in DOMAIN nodeStates' /\ nodeStates'[t] = nodeStates[t]
          /\ \A e \in DOMAIN attrStates : \A n \in DOMAIN attrStates[e] :
                 (n \in DOMAIN tattrs[e] /\ HoldsApplied(attrStates[e][n], tattrs[e][n]))
                     => /\ e \in DOMAIN attrStates'
                        /\ n \in DOMAIN attrStates'[e]
                        /\ attrStates'[e][n] = attrStates[e][n]]_vars

\* the notifications of a cycle's writes to a text node and to an attribute
\* have been delivered: both hold their translations, nothing is queued
C2_Witness ==
    /\ records = <<>>
    /\ AllApplied
    /\ \E c \in DOMAIN cycles : cycles[c].pc = "done"
    /\ \E t \in DOMAIN nodeStates : text[t] \notin SourceTexts
    /\ \E e \in DOMAIN attrStates : \E n \in DOMAIN attrStates[e] :
           tattrs[e][n] # <<"a">>
    /\ history.adds = <<>>

\* the step in which cycle c runs its partition loop and offline check
PartitionStep(c) == partition' # partition /\ partition'.cycle = c

\* what the apply phase makes of a value with the tracked state, once its
\* key has resolved to the cached value
AppliedHit(state, value, container) ==
    IF state.normalizedKey = <<>> THEN value
    ELSE ReconstructText(value, state.fragments, container)

\* the age of a hit of the partition loop that ran last makes it stale
IsExpired(p, k) ==
    expiryHours > 0 /\ p.nowAt - p.hits[k].updatedAt >= expiryHours * TicksPerHour

\* C4: a cycle whose partition loop runs while the host reports offline
\* never calls the lookup function: it runs its apply phase at once, and
\* every text node and attribute pending on a key of the batch that has a
\* cache hit, fresh or stale, receives the translation made of the cached
\* value and becomes translated.
C4_OfflineAppliesHits ==
    [][\A c \in DOMAIN cycles :
           (PartitionStep(c) /\ partition'.offline) =>
               /\ cycles'[c].pc = "done"
               /\ cycles[c].calls = 0 /\ cycles'[c].calls = 0
               /\ \A t \in DOMAIN nodeStates :
                      (/\ IsRequested(nodeStates[t], cycles[c].batch)
                       /\ nodeStates[t].lastText = text[t]
                       /\ nodeStates[t].pendingSource \in DOMAIN partition'.hits)
                          => /\ text'[t] =
                                   AppliedHit(nodeStates[t],
                                       partition'.hits[nodeStates[t].pendingSource].value,
                                       GetTextContainer(t))
                             /\ nodeStates'[t] = SettledState(TRUE, text'[t])
               /\ \A e \in DOMAIN attrStates : \A n \in DOMAIN attrStates[e] :
                      (/\ IsRequested(attrStates[e][n], cycles[c].batch)
                       /\ n \in DOMAIN tattrs[e]
                       /\ attrStates[e][n].lastText = tattrs[e][n]
                       /\ attrStates[e][n].pendingSource \in DOMAIN partition'.hits)
                          => /\ tattrs'[e][n] =
                                   AppliedHit(attrStates[e][n],
                                       partition'.hits[attrStates[e][n].pendingSource].value,
                                       e)
                             /\ attrStates'[e][n] = SettledState(TRUE, tattrs'[e][n])]_vars

\* a cycle has run offline with a stale and a fresh hit, without a lookup
\* call, and both cached values are in the tree
C4_Witness ==
    /\ partition.offline
    /\ \E k \in DOMAIN partition.hits : IsExpired(partition, k)
    /\ \E k \in DOMAIN partition.hits : ~IsExpired(partition, k)
    /\ partition.cycle \in DOMAIN cycles
    /\ cycles[partition.cycle].pc = "done"
    /\ cycles[partition.cycle].calls = 0
    /\ tattrs["p"]["title"] = <<"c">>
    /\ text["t1"] \in {<<"1", "c">>, <<"2", "c">>}

\* C5 as stated: every cached hit is added to the lookup request iff an
\* expiry is configured and the entry is at least that old.
C5_StaleHitsAreFetched ==
    [][\A c \in DOMAIN cycles :
           PartitionStep(c) =>
               \A k \in DOMAIN partition'.hits :
                   k \in Range(partition'.fetchKeys) <=> IsExpired(partition', k)]_vars

\* C5: in a cycle whose partition loop runs while the host reports online,
\* a cached hit is added to the lookup request iff an expiry is configured
\* (expiryHours > 0) and now - updatedAt >= expiryHours hours; a batch whose
\* keys are all hits younger than that produces no lookup call; with
\* expiryHours 0 no hit is added to a lookup request.
C5_StaleHitsAreFetchedOnline ==
    [][\A c \in DOMAIN cycles :
           PartitionStep(c) =>
               /\ ~partition'.offline =>
                      \A k \in DOMAIN partition'.hits :
                          k \in Range(partition'.fetchKeys)
                              <=> IsExpired(partition', k)
               /\ (\A k \in Range(cycles[c].batch) :
                       k \in DOMAIN partition'.hits /\ ~IsExpired(partition', k))
                      => /\ cycles'[c].pc = "done"
                         /\ cycles'[c].calls = 0
               /\ expiryHours = 0 =>
                      \A k \in DOMAIN partition'.hits :
                          k \notin Range(partition'.fetchKeys)
               /\ cycles'[c].pc = "lookup"
                      => cycles'[c].fetchKeys = partition'.fetchKeys]_vars

\* an online cycle with a hit of exactly the configured age and a younger
\* hit has requested the first and not the second
C5_Witness ==
    /\ ~partition.offline
    /\ expiryHours = 1
    /\ \E k \in DOMAIN partition.hits :
           /\ partition.nowAt - partition.hits[k].updatedAt = expiryHours * TicksPerHour
           /\ k \in Range(partition.fetchKeys)
    /\ \E k \in DOMAIN partition.hits :
           /\ partition.nowAt - partition.hits[k].updatedAt < expiryHours * TicksPerHour
           /\ k \notin Range(partition.fetchKeys)
    /\ partition.cycle \in DOMAIN cycles
    /\ cycles[partition.cycle].pc = "lookup"

\* the step in which the transaction of cycle c's persistTranslations ends
PersistStep(c) ==
    /\ cycles[c].pc = "io"
    /\ cycles[c].phase = "persist"
    /\ cycles'[c].pc # "io"

\* C11: when the active locale has been switched since a cycle called the
\* lookup function, the step that ends the cycle's persist writes the results
\* into the cache namespace of the locale the lookup was made for, and
\* changes no other namespace.
C11_PersistIntoLookupNamespace ==
    [][\A c \in DOMAIN cycles :
           (PersistStep(c) /\ cycles[c].lookupLocale # locale) =>
               \A ns \in DOMAIN cache :
                   cache'[ns] # cache[ns]
                       => ns = ComposeDbName(cycles[c].lookupLocale[1],
                                             cycles[c].lookupLocale[2])]_vars

\* the first variable placeholder of a text: the positions of its "$" and of
\* its closing brace, 0 when the text has none
PlaceholderStart(s) ==
    IF \E i \in 1..(Len(s) - 3) : s[i] = "$" /\ s[i + 1] = "{"
    THEN CHOOSE i \in 1..(Len(s) - 3) :
             /\ s[i] = "$" /\ s[i + 1] = "{"
             /\ \A j \in 1..(i - 1) : ~(s[j] = "$" /\ s[j + 1] = "{")
    ELSE 0

PlaceholderEnd(s) ==
    IF PlaceholderStart(s) > 0
       /\ \E k \in (PlaceholderStart(s) + 3)..Len(s) : s[k] = "}"
    THEN CHOOSE k \in (PlaceholderStart(s) + 3)..Len(s) :
             /\ s[k] = "}"
             /\ \A j \in (PlaceholderStart(s) + 3)..(k - 1) : s[j] # "}"
    ELSE 0

HasPlaceholder(s) == PlaceholderEnd(s) > 0

\* the text with its placeholder replaced by the value v
WithPlaceholder(s, v) ==
    SubSeq(s, 1, PlaceholderStart(s) - 1) \o v \o SubSeq(s, PlaceholderEnd(s) + 1, Len(s))

PlaceholderName(s) == SubSeq(s, PlaceholderStart(s) + 2, PlaceholderEnd(s) - 1)

\* the value of the variable attribute slot on element e or on its nearest
\* ancestor that carries it; <<>> when none does
RECURSIVE NearestValue(_, _)
NearestValue(e, slot) ==
    IF e = NoNode THEN <<>>
    ELSE IF slot \in DOMAIN tattrs[e] THEN tattrs[e][slot]
    ELSE NearestValue(ParentElement(e), slot)

\* the translated templates a key may resolve to
TemplatesOf(k) == {Dictionary(loc, k) : loc \in Locales}

\* the template with its first "{}" replaced by the value v
Filled(template, v) ==
    IF \E i \in 1..(Len(template) - 1) : template[i] = "{" /\ template[i + 1] = "}"
    THEN LET i == CHOOSE i \in 1..(Len(template) - 1) :
                      /\ template[i] = "{" /\ template[i + 1] = "}"
                      /\ \A j \in 1..(i - 1) : ~(template[j] = "{" /\ template[j + 1] = "}")
         IN  SubSeq(template, 1, i - 1) \o v \o SubSeq(template, i + 2, Len(template))
    ELSE template

\* C12: a text node whose content holds a variable placeholder is pending
\* under the key made by replacing the placeholder with "{}", with the
\* placeholder as its only fragment; and when a cycle writes to the node,
\* the node receives the translated template of that key with its "{}"
\* replaced by the value of the variable's attribute on the nearest ancestor
\* of the text that carries it.
C12_VariablePlaceholder ==
    /\ [](\A t \in DOMAIN nodeStates :
             (nodeStates[t].pendingSource # <<>> /\ HasPlaceholder(nodeStates[t].lastText))
                 => /\ nodeStates[t].pendingSource
                          = WithPlaceholder(nodeStates[t].lastText, PlaceholderToken)
                    /\ Len(nodeStates[t].fragments) = 1
                    /\ nodeStates[t].fragments[1].type = "variable")
    /\ [][\A c \in DOMAIN cycles : \A t \in DOMAIN nodeStates :
              (ApplyStep(c) /\ HasPlaceholder(text[t]) /\ text'[t] # text[t])
                  => \E template \in TemplatesOf(WithPlaceholder(text[t], PlaceholderToken)) :
                         text'[t] = Filled(template,
                                        NearestValue(GetTextContainer(t),
                                            VariableAttributeName(PlaceholderName(text[t]))))]_vars

\* C13: for every text with exactly one numeric literal and one variable
\* placeholder, reconstructing its normalized key with its own fragments and
\* a resolver that returns each fragment's raw text gives the text back.
C13_RoundTrip ==
    ("t1" \in DOMAIN nodeStates /\ nodeStates["t1"].translated)
        => text["t1"] = nodeStates["t1"].lastText

\* text node t and attribute n of element e are pending on the same key of
\* the batch, each with the content its key was derived from
SharesKey(t, e, n, batch) ==
    /\ IsRequested(nodeStates[t], batch)
    /\ IsRequested(attrStates[e][n], batch)
    /\ nodeStates[t].pendingSource = attrStates[e][n].pendingSource
    /\ nodeStates[t].lastText = text[t]
    /\ n \in DOMAIN tattrs[e]
    /\ attrStates[e][n].lastText = tattrs[e][n]

\* the raw text of the dynamic fragment of a tracked value, <<>> without one
RawOf(state) == IF state.fragments = <<>> THEN <<>> ELSE state.fragments[1].raw

\* C14: the batch of a cycle holds each key once and the cycle calls the
\* lookup function at most once; when a text node and an attribute are
\* pending on the same key of the batch, the apply phase of the cycle treats
\* them alike: both become translated, and either the key has no
\* translation and neither is written, or both receive the same translated
\* template, each filled with its own dynamic fragment.
C14_AttributeSharesKey ==
    /\ [](\A c \in DOMAIN cycles :
             NoDuplicates(cycles[c].batch) /\ cycles[c].calls =< 1)
    /\ [][\A c \in DOMAIN cycles :
              ApplyStep(c) =>
                  \A t \in DOMAIN nodeStates, e \in DOMAIN attrStates :
                      \A n \in DOMAIN attrStates[e] :
                          SharesKey(t, e, n, cycles[c].batch) =>
                              /\ nodeStates'[t].translated
                              /\ attrStates'[e][n].translated
                              /\ nodeStates'[t].pendingSource = <<>>
                              /\ attrStates'[e][n].pendingSource = <<>>
                              /\ \/ text'[t] = text[t] /\ tattrs'[e][n] = tattrs[e][n]
                                 \/ \E tpl \in TemplatesOf(nodeStates[t].pendingSource) :
                                        /\ text'[t] = Filled(tpl, RawOf(nodeStates[t]))
                                        /\ tattrs'[e][n] = Filled(tpl, RawOf(attrStates[e][n]))]_vars

\* a text node and an attribute that were pending on one key have both
\* received its translation from one cycle with one lookup call
C14_Witness ==
    /\ text["t1"] = <<"1", "c">>
    /\ tattrs["p"]["title"] = <<"2", "c">>
    /\ nodeStates["t1"].translated
    /\ attrStates["p"]["title"].translated
    /\ \A c \in DOMAIN cycles : cycles[c].pc = "done"

\* the invalidate callback has returned and no deletion of its keys is
\* still in progress
InvalidationFinished == db.init.pc # "hook" /\ db.init.pending = {}

\* C15: the invalidate callback is invoked at most once; while it has not
\* returned or a deletion of its keys is in progress, #initPromise has not
\* resolved, every cycle still waits for it, having made no cache request and
\* no lookup call, and no step changes the active locale or the namespace of
\* the cache.
C15_NothingBeforeInvalidation ==
    /\ [](db.init.calls =< 1)
    /\ [](~InvalidationFinished =>
             /\ ~initDone
             /\ db.dbPromise = 0 /\ db.dbInstance = NoDb
             /\ \A c \in DOMAIN cycles : cycles[c].pc = "init" /\ cycles[c].calls = 0)
    /\ [][~InvalidationFinished => locale' = locale /\ db'.current = db.current]_vars

\* the callback returned keys, they were deleted from both databases, and a
\* cycle has then read the cache and called the lookup function
C15_Witness ==
    /\ db.init.calls = 1
    /\ db.init.keys = {<<"a">>}
    /\ InvalidationFinished
    /\ \A name \in DOMAIN cache : <<"a">> \notin DOMAIN cache[name]
    /\ \E c \in DOMAIN cycles : cycles[c].calls = 1

\* cycle c resumes from its wait for #initPromise and reads the cache
ReadStep(c) == cycles[c].pc = "init" /\ cycles'[c].pc # "init"

\* C16 (storage part): without IndexedDB no cache request is ever in
\* progress and no cycle ends with a failure of the cache, the cache is
\* never written, and a cycle that reads the cache while the host is online
\* goes on to one lookup call with all keys of its batch.
C16_CacheIsNoOp ==
    /\ [](\A c \in DOMAIN cycles :
             /\ cycles[c].pc \notin {"open", "join", "io"}
             /\ cycles[c].failure \notin {"open", "put"}
             /\ cycles[c].calls =< 1)
    /\ [][cache' = cache]_vars
    /\ [][\A c \in DOMAIN cycles :
              (ReadStep(c) /\ online) =>
                  /\ cycles'[c].pc = "lookup"
                  /\ cycles'[c].calls = 1
                  /\ cycles'[c].fetchKeys = cycles[c].batch]_vars

\* C16: without IndexedDB every cache read returns an empty map and every
\* cache write is a no-op, every online cycle calls the lookup function once
\* with all keys of its batch, and no cycle fails.
C16_NoStorageAlwaysFetch ==
    /\ C16_CacheIsNoOp
    /\ [](\A c \in DOMAIN cycles : cycles[c].pc # "failed")

\* the environment lacks something the constructor checks for
Lacking(env) ==
    ~(env.mutationObserver /\ env.body /\ env.language /\ env.getTranslations)

\* C17: when the MutationObserver class, document.body, navigator.language
\* or the getTranslations argument is missing, the constructor has thrown;
\* no MutationObserver observes a root, no notification is queued, no cycle
\* exists (so no lookup call is made) and no value is tracked, the marker
\* attributes of the document are as they were, and no later step changes
\* any of this: the only steps are the application's own writes.
C17_ConstructionThrows ==
    /\ [](Lacking(history.env) =>
             /\ history.thrown # ""
             /\ ~connected
             /\ \A e \in Elements : ~IsObserved(e)
             /\ records = <<>>
             /\ cycles = <<>>
             /\ nodeStates = EmptyMap /\ attrStates = EmptyMap
             /\ attrs = [NoMarkers EXCEPT !["p"]["data-transmut-attrs"] = "title"]
             /\ cache = OldCache)
    /\ [][Lacking(history.env) =>
              /\ history'.external = history.external + 1
              /\ attrs' = attrs]_vars

\* the constructor threw for the missing getTranslations argument, after it
\* had added the root to #observedRoots, and the application has since
\* changed a text that nobody observes
C17_Witness ==
    /\ history.thrown = "A getTranslations function must be provided."
    /\ observedRoots = {"body"}
    /\ history.external = 1
    /\ text["t1"] = <<"2">>
    /\ records = <<>>

\* the text nodes of the document whose container satisfies the test
TextsIn(Test(_)) ==
    {t \in DOMAIN text : GetTextContainer(t) # NoNode /\ Test(GetTextContainer(t))}

\* C18 (text part): with skipEditable set no text of an editable element is
\* tracked, no text of a script, style or noscript element is tracked
\* whatever the directives, and no step of the observer writes such a text.
C18_TextExclusions ==
    /\ [](/\ options.skipEditable => TextsIn(IsEditable) \cap DOMAIN nodeStates = {}
          /\ TextsIn(IsProhibitedContainer) \cap DOMAIN nodeStates = {})
    /\ [][\A t \in TextsIn(IsEditable) \cup TextsIn(IsProhibitedContainer) :
              text'[t] # text[t] => history'.external = history.external + 1]_vars

\* C18: the text exclusions hold, and with skipEditable set no attribute of
\* an editable element is tracked (so no lookup key is derived from it) and
\* no step of the observer writes one.
C18_StructuralExclusions ==
    /\ C18_TextExclusions
    /\ [](options.skipEditable =>
             \A e \in Elements : IsEditable(e) => e \notin DOMAIN attrStates)
    /\ [][options.skipEditable =>
              \A e \in Elements :
                  (IsEditable(e) /\ tattrs'[e] # tattrs[e])
                      => history'.external = history.external + 1]_vars

\* the locale tag element e declares in the attributes a, "" when it
\* declares none: the value of data-transmut-locale unless it is a keyword,
\* the value of lang otherwise
DeclaredTag(a, e) ==
    IF a[e]["data-transmut-locale"] # Absent
    THEN (IF a[e]["data-transmut-locale"]
                \in {"", "inherit", "auto", "target", "skip", "source", "original", "none"}
          THEN "" ELSE a[e]["data-transmut-locale"])
    ELSE IF a[e]["lang"] # Absent THEN a[e]["lang"]
    ELSE ""

\* element e or an element above it declares, in the attributes a, a locale
\* that differs from the locale loc
InForeignSection(a, loc, e) ==
    \E i \in 1..Len(AncestorsOrSelf(e)) :
        /\ DeclaredTag(a, AncestorsOrSelf(e)[i]) # ""
        /\ TagLower(FormatLocaleTag(DeclaredTag(a, AncestorsOrSelf(e)[i])))
               # TagLower(ComposeLocaleTag(loc[1], loc[2]))

\* the text nodes and the <<element, attribute>> pairs that are pending in
\* the tracked states ns and as
PendingTexts(ns) == {t \in DOMAIN ns : ns[t].pendingSource # <<>>}
PendingAttributes(as) ==
    {<<e, n>> \in Elements \X DefaultAttributeNames :
        e \in DOMAIN as /\ n \in DOMAIN as[e] /\ as[e][n].pendingSource # <<>>}

\* C19: no text node and no attribute below an element that declares a
\* locale other than the active one is made pending, by the initial scan or
\* by any later step, while the declared locale differs from the active one.
C19_ForeignSectionNotEnqueued ==
    /\ \A t \in PendingTexts(nodeStates) :
           ~InForeignSection(attrs, locale, GetTextContainer(t))
    /\ \A x \in PendingAttributes(attrStates) : ~InForeignSection(attrs, locale, x[1])
    /\ [][/\ \A t \in PendingTexts(nodeStates') :
                 (t \notin PendingTexts(nodeStates) \/ nodeStates'[t] # nodeStates[t])
                     => ~InForeignSection(attrs', locale', GetTextContainer(t))
          /\ \A x \in PendingAttributes(attrStates') :
                 (x \notin PendingAttributes(attrStates)
                      \/ attrStates'[x[1]][x[2]] # attrStates[x[1]][x[2]])
                     => ~InForeignSection(attrs', locale', x[1])]_vars

\* the section declares es-mx: its text was left alone while the active
\* locale was en, and was translated after the change to es-mx
C19_Witness ==
    /\ DeclaredTag(attrs, "sec") = "es-mx"
    /\ locale = <<"es", "mx">>
    /\ history.localeCalls = 1
    /\ text["t1"] = <<"n", "1">>

\* the element that stands for an observed root: the host of a shadow root
TargetOf(root) == IF root \in ShadowRoots THEN Host(root) ELSE root

\* the state after changeLocale(arg[1], arg[2]) has resolved: the active
\* locale and the locale of the cache are the arguments, with the default
\* language and region for those left out, and with setLanguageAttributes
\* the document element and every observed root carry its tag and direction
LocaleChangedTo(arg) ==
    LET expected == <<IF arg[1] # "" THEN arg[1] ELSE defaultLocale[1],
                      IF arg[2] # "" THEN arg[2] ELSE defaultLocale[2]>>
        tag == IF expected[2] = "" THEN expected[1]
               ELSE IF expected = <<"en", "us">> THEN "en-US"
               ELSE IF expected = <<"es", "mx">> THEN "es-MX"
               ELSE "?"
        direction == IF expected[1] = "ar" THEN "rtl" ELSE "ltr"
    IN  /\ locale' = expected
        /\ db'.current = expected
        /\ db'.dbInstance = NoDb
        /\ options.setLanguageAttributes =>
               \A e \in {"html"} \cup {TargetOf(root) : root \in observedRoots} :
                   /\ attrs'[e]["lang"] = tag
                   /\ attrs'[e]["dir"] = direction

\* C20: when a changeLocale(language, region) call resolves, the one of the
\* constructor (without arguments) included, the active locale is
\* (language or the default language, region or the default region), the
\* cache is set to that locale, and with setLanguageAttributes the document
\* element and the observed roots carry its lang and dir.
C20_ChangeLocaleResolves ==
    [][/\ InitResolve => LocaleChangedTo(<<"", "">>)
       /\ \A loc \in Locales : ChangeLocale(loc) => LocaleChangedTo(loc)]_vars

\* changeLocale("en") has resolved with the default region filled in, and
\* the document element and the body carry the tag and the direction
C20_Witness ==
    /\ history.localeCalls = 1
    /\ locale = <<"en", "us">>
    /\ db.current = <<"en", "us">>
    /\ attrs["html"]["lang"] = "en-US"
    /\ attrs["body"]["dir"] = "ltr"

\* the lower-case tag of a locale of the model
LowerTagOf(loc) == IF loc = <<"es", "mx">> THEN "es-mx" ELSE loc[1]

\* the direction of locale loc when the override table is consulted for the
\* keys in keys, in that order of preference: the explicit direction, else
\* the configured override, else the built-in table, else ltr
DirectionBy(keys) ==
    IF options.direction # "auto" THEN options.direction
    ELSE IF keys # <<>> /\ keys[1] \in DOMAIN options.directionOverrides
    THEN options.directionOverrides[keys[1]]
    ELSE IF Len(keys) > 1 /\ keys[2] \in DOMAIN options.directionOverrides
    THEN options.directionOverrides[keys[2]]
    ELSE "ltr"

\* C21 (language part): once the constructor's changeLocale has resolved,
\* the document element carries the direction resolved from the explicit
\* option, else the override or built-in entry of the language, else ltr.
C21_DirectionByLanguage ==
    (initDone /\ options.setLanguageAttributes) =>
        attrs["html"]["dir"] = DirectionBy(<<locale[1]>>)

\* C21: once the constructor's changeLocale has resolved, the document
\* element carries the direction resolved from the explicit option, else
\* the override of the exact language-region tag, else the override of the
\* base language, else the built-in table, else ltr.
C21_DirectionResolution ==
    (initDone /\ options.setLanguageAttributes) =>
        attrs["html"]["dir"] = DirectionBy(<<LowerTagOf(locale), locale[1]>>)

\* a step of the engine, not a call or a write of the application
EngineStep == history'.external = history.external

\* C22 (cycle part): after disconnect() no value is tracked, no record
\* waits for delivery, and no step of a cycle writes a text or a
\* translatable attribute: a cycle that was in flight applies nothing.
C22_CyclesApplyNothing ==
    /\ [](history.disconnected =>
             nodeStates = EmptyMap /\ attrStates = EmptyMap /\ records = <<>>)
    /\ [][(history.disconnected /\ EngineStep) =>
              text' = text /\ tattrs' = tattrs]_vars

\* C22: after disconnect() has returned the engine writes nothing to the
\* tree, neither content nor attributes, and tracks nothing.
C22_NoWriteAfterDisconnect ==
    /\ C22_CyclesApplyNothing
    /\ [][(history.disconnected /\ EngineStep) => attrs' = attrs]_vars

\* the value stored for key under the normalised locale, <<>> when no row
\* is stored (as a set: the values of the rows with that primary key)
StoredValues(lang, region, key) ==
    {r.value : r \in RowsAt(backend.translations, lang, region, key)}

\* the answer to a load for key is what the claim's order gives: the
\* region-specific value, else with fallback the region-less value, else
\* no entry
AnswersByOrder(result, lang, region, key, fallback) ==
    IF StoredValues(lang, region, key) # {}
    THEN key \in DOMAIN result /\ result[key] \in StoredValues(lang, region, key)
    ELSE IF fallback /\ StoredValues(lang, <<>>, key) # {}
    THEN key \in DOMAIN result /\ result[key] \in StoredValues(lang, <<>>, key)
    ELSE key \notin DOMAIN result

\* the loads of a region-specific locale answer by the order for the keys
\* in the set keys
LoadsAnswer(keys) ==
    \A loc \in LoadLocales, list \in KeyLists, fallback \in BOOLEAN :
        (/\ LoadTranslations(loc, list, fallback)
         /\ NormalizeLocale(loc).lang # <<>>
         /\ NormalizeLocale(loc).region # <<>>)
        => \A key \in Range(list) \cap keys :
               AnswersByOrder(backend'.returned.value, NormalizeLocale(loc).lang,
                              NormalizeLocale(loc).region, key, fallback)

\* C23 (ordinary keys): a load for a region-specific locale answers every
\* requested key that is not a property name of Object.prototype with the
\* region-specific value if stored, else, with fallback, the region-less
\* value of the language if stored, else with no entry.
C23_LoadOrdinaryKeys == [][LoadsAnswer(BackendKeys \ ObjectPrototypeKeys)]_vars

\* C23: a load for a region-specific locale answers every requested key
\* with the region-specific value if stored, else, with fallback, the
\* region-less value of the language if stored, else with no entry; without
\* fallback only region-specific values are returned.
C23_LoadWithFallback == [][LoadsAnswer(BackendKeys)]_vars

\* the rows of the table after the step with the primary key of row r
SameKeyAfter(r) == RowsAt(backend'.translations, r.lang, r.region, r.key)

\* the step is a call of upsertTranslations
UpsertStep == backend'.upserts # backend.upserts

\* the last record of batch whose trimmed key is that of entry
IsLastFor(batch, i) == \A j \in DOMAIN batch : j > i => Trim(batch[j].key) # Trim(batch[i].key)

\* C24: the table never has two rows with one (lang, region, key); a row
\* stored with edited = 1 stays edited through every later upsert; an upsert
\* whose records carry no metadata leaves every row's metadata as it was;
\* and after an upsert every record it wrote has the value of that upsert
\* and its updatedAt.
C24_UpsertKeeps ==
    /\ [](\A r1 \in backend.translations, r2 \in backend.translations :
              (r1.lang = r2.lang /\ r1.region = r2.region /\ r1.key = r2.key) => r1 = r2)
    /\ [][UpsertStep =>
              \A r \in backend.translations :
                  /\ SameKeyAfter(r) # {}
                  /\ r.edited = 1 => \A q \in SameKeyAfter(r) : q.edited = 1
                  /\ ~backend'.returned.described
                         => \A q \in SameKeyAfter(r) : q.metadata = r.metadata]_vars
    /\ [][(UpsertStep /\ backend'.returned.wrote) =>
          \A loc \in BackendLocales, batch \in BackendBatches, markAsEdited \in BOOLEAN, touchedAt \in 1..2 :
              (/\ backend'.returned = Returned(FALSE, ToRecordArray(batch), markAsEdited)
               /\ UpsertTranslations(loc, batch, markAsEdited, touchedAt))
              => \A i \in DOMAIN batch :
                     (Trim(batch[i].key) # <<>> /\ IsLastFor(batch, i))
                     => \E q \in backend'.translations :
                            /\ q.lang = NormalizeLocale(loc).lang
                            /\ q.region = NormalizeLocale(loc).region
                            /\ q.key = Trim(batch[i].key)
                            /\ q.value = batch[i].value
                            /\ q.updated_at = touchedAt]_vars

\* an edited record with metadata was stored, and a later upsert without
\* the flag and without metadata wrote it again
C24_Witness ==
    /\ backend.upserts = 2
    /\ backend.returned.call = "upsert"
    /\ backend.returned.wrote
    /\ ~backend.returned.flagged
    /\ ~backend.returned.described
    /\ \E r \in backend.translations :
           /\ backend.translations = {r}
           /\ r.edited = 1
           /\ r.metadata = <<"h">>
           /\ r.value = <<"y">>
           /\ r.updated_at = 2

\* no #translate invocation is between its start and its end
NoCycleInFlight == \A c \in DOMAIN cycles : cycles[c].pc \in {"done", "failed"}

\* every tracked text node and attribute is Clean
AllClean ==
    /\ \A t \in DOMAIN nodeStates : nodeStates[t].translated
    /\ \A e \in DOMAIN attrStates : \A n \in DOMAIN attrStates[e] :
           attrStates[e][n].translated

\* the engine is at rest: the constructor's promise has resolved, no record
\* waits for delivery and no cycle is in flight, so without a further
\* external event no step of the engine is left
AtRest == initDone /\ records = <<>> /\ NoCycleInFlight

\* C25: when every request has returned and no external event follows, the
\* engine has come to rest with every tracked text node and attribute Clean:
\* no value is pending without a cycle in flight that will resolve its key.
C25_AtRestClean == AtRest => AllClean

\* C26: a cached database handle is always a handle to the namespace of the
\* active locale, whatever was in flight when the locale was switched.
C26_HandleIsCurrent ==
    db.dbInstance # NoDb => db.dbInstance = ComposeDbName(db.current[1], db.current[2])

\* tracked value state, with current content content, is written by the
\* apply phase for batch to the new content written: it is pending on a key
\* of the batch, the content is the one the key was derived from, and what
\* is written is a translation of that key filled with the value's own
\* fragment
WrittenForKey(state, content, batch, written) ==
    /\ IsRequested(state, batch)
    /\ state = PendingState(content)
    /\ \E tpl \in TemplatesOf(state.pendingSource) :
           written = Filled(tpl, RawOf(state))

\* C27: the engine changes a text or a translatable attribute only in the
\* apply phase of a cycle, and every such write is to a tracked value that
\* is pending on a key of the cycle's batch, whose current content is the
\* content that key was derived from, and writes the translation of exactly
\* that key, filled with that content's fragment, whichever of two
\* overlapping cycles completes first.
C27_WritesMatchContent ==
    [][EngineStep =>
          /\ \A t \in DOMAIN text :
                 text'[t] # text[t] =>
                     \E c \in DOMAIN cycles :
                         /\ ApplyStep(c)
                         /\ t \in DOMAIN nodeStates
                         /\ WrittenForKey(nodeStates[t], text[t], cycles[c].batch, text'[t])
          /\ \A e \in DOMAIN tattrs : \A n \in DOMAIN tattrs[e] :
                 tattrs'[e][n] # tattrs[e][n] =>
                     \E c \in DOMAIN cycles :
                         /\ ApplyStep(c)
                         /\ e \in DOMAIN attrStates
                         /\ n \in DOMAIN attrStates[e]
                         /\ WrittenForKey(attrStates[e][n], tattrs[e][n],
                                          cycles[c].batch, tattrs'[e][n])]_vars

\* two cycles overlap and the later one has completed first and written a
\* translation to a node, which shows it
C27_Witness ==
    /\ Len(cycles) = 2
    /\ cycles[2].pc = "done"
    /\ cycles[1].pc \notin {"done", "failed"}
    /\ \E t \in DOMAIN nodeStates :
           /\ nodeStates[t].translated
           /\ nodeStates[t].lastText = text[t]
           /\ text[t] \notin SourceTexts \cup {<<"a">>}

\* the step writes a text or a translatable attribute
TreeWrite == text' # text \/ tattrs' # tattrs

\* the keys on which the values written by the step were pending
WrittenKeys ==
    {nodeStates[t].pendingSource : t \in {u \in DOMAIN nodeStates : text'[u] # text[u]}}
        \cup UNION {{attrStates[e][n].pendingSource :
                        n \in {o \in DOMAIN attrStates[e] : tattrs'[e][o] # tattrs[e][o]}} :
                    e \in DOMAIN attrStates}

\* C28 (order): a cycle that writes to the tree straight after its lookup
\* call has fetched nothing and writes cache hits only; a cycle that fetched
\* results writes to the tree in the step that ends its cache write, and
\* then either the store of the handle holds every fetched key or the store
\* is as it was.
C28_PersistBeforeApply ==
    [][\A c \in DOMAIN cycles :
           (ApplyStep(c) /\ TreeWrite) =>
               /\ (cycles[c].pc = "lookup" /\ db.available)
                      => WrittenKeys \subseteq DOMAIN cycles[c].resolved
               /\ cycles[c].phase = "persist"
                      => /\ cycles[c].pc \in {"io", "open"}
                         /\ \/ cache' = cache
                            \/ cycles[c].pc = "io"
                               /\ \A k \in DOMAIN cycles[c].fetched :
                                      k \in DOMAIN cache'[cycles[c].handle]]_vars

\* C28: the cache write of a cycle's results ends before the cycle writes to
\* the tree, and a cycle that starts its read of the cache at once, on the
\* handle the cache object holds, reads a database that has every key of its
\* batch that the database of the active locale holds, with the same entry.
C28_LaterCycleFindsKey ==
    /\ C28_PersistBeforeApply
    /\ [][\A c \in DOMAIN cycles :
              (ReadStep(c) /\ cycles'[c].pc = "io") =>
                  \A k \in Range(cycles[c].batch) :
                      k \in DOMAIN cache[ComposeDbName(locale[1], locale[2])]
                          => /\ k \in DOMAIN cache[cycles'[c].handle]
                             /\ cache[cycles'[c].handle][k] =
                                    cache[ComposeDbName(locale[1], locale[2])][k]]_vars

\* tracked value state with current content content is taken up by the
\* apply phase for batch and is not superseded
Applies(state, content, batch) == IsRequested(state, batch) /\ state.lastText = content

\* the apply phase has left the value as it was and made it Clean
LeftClean(before, after, stateAfter) ==
    after = before /\ stateAfter = SettledState(TRUE, before)

\* every value the apply phase takes up in this step whose key satisfies
\* Unresolved is left as it was and made Clean
UntranslatedLeftClean(c, Unresolved(_, _)) ==
    /\ \A t \in DOMAIN nodeStates :
           (/\ Applies(nodeStates[t], text[t], cycles[c].batch)
            /\ Unresolved(nodeStates[t].pendingSource, text[t]))
               => LeftClean(text[t], text'[t], nodeStates'[t])
    /\ \A e \in DOMAIN attrStates : \A n \in DOMAIN attrStates[e] :
           (/\ n \in DOMAIN tattrs[e]
            /\ Applies(attrStates[e][n], tattrs[e][n], cycles[c].batch)
            /\ Unresolved(attrStates[e][n].pendingSource, tattrs[e][n]))
               => LeftClean(tattrs[e][n], tattrs'[e][n], attrStates'[e][n])

\* a tracked value is Clean with the content it shows
CleanText(t) ==
    /\ t \in DOMAIN nodeStates
    /\ nodeStates[t].translated
    /\ nodeStates[t].lastText = text[t]
CleanAttribute(e, n) ==
    /\ e \in DOMAIN attrStates
    /\ n \in DOMAIN attrStates[e] \cap DOMAIN tattrs[e]
    /\ attrStates[e][n].translated
    /\ attrStates[e][n].lastText = tattrs[e][n]

\* C29: when a cycle resolves, every value it takes up whose key has no
\* resolved translation (the lookup gave nothing and the cache had no hit),
\* an empty one, or one identical to the current content is left unmodified
\* and becomes Clean; and a Clean value whose content does not change stays
\* Clean with no pending key, whatever the engine or the application does.
C29_UntranslatedBecomesClean ==
    /\ [][\A c \in DOMAIN cycles :
              /\ (\E o \in {"empty", "nullish", "jsonInvalid", "reject"} : LookupReturn(c, o))
                     => UntranslatedLeftClean(c,
                            LAMBDA k, v : k \notin DOMAIN cycles[c].resolved)
              /\ LookupReturnsUntranslated(c, "blank")
                     => UntranslatedLeftClean(c,
                            LAMBDA k, v : k \in Range(cycles[c].fetchKeys))
              /\ (ApplyStep(c) /\ cycles[c].phase = "persist"
                    /\ \A k \in DOMAIN cycles[c].fetched : cycles[c].fetched[k] = k)
                     => UntranslatedLeftClean(c,
                            LAMBDA k, v : k \in DOMAIN cycles[c].fetched /\ k = v)]_vars
    /\ [][/\ \A t \in DOMAIN text :
                 (CleanText(t) /\ text'[t] = text[t])
                     => t \in DOMAIN nodeStates' /\ nodeStates'[t] = nodeStates[t]
          /\ \A e \in DOMAIN tattrs : \A n \in DOMAIN tattrs[e] :
                 (CleanAttribute(e, n) /\ tattrs'[e][n] = tattrs[e][n])
                     => /\ e \in DOMAIN attrStates'
                        /\ n \in DOMAIN attrStates'[e]
                        /\ attrStates'[e][n] = attrStates[e][n]]_vars

\* a cycle that called the lookup function has ended and a text node still
\* shows its source text "a", Clean
C29_Witness ==
    \E t \in DOMAIN nodeStates, c \in DOMAIN cycles :
        /\ CleanText(t)
        /\ text[t] = <<"a">>
        /\ cycles[c].pc = "done"
        /\ cycles[c].calls > 0

\* the removal of the subtree under n has been reported and the callback
\* has handled the report
Processed(n) ==
    /\ n \in detached.nodes
    /\ \A i \in DOMAIN records :
           ~(records[i].type = "childList" /\ records[i].target = n)

\* no state is kept for a node of the subtree under n
Forgotten(ns, as, n) ==
    /\ \A t \in Range(TextNodesUnder(n)) : t \notin DOMAIN ns
    /\ \A e \in Range(ElementsUnder(n)) : e \notin DOMAIN as

\* C30: after the removal notification for a subtree has been processed, no
\* NodeState and no AttributeState map remains for any node of the subtree.
C30_NoStateAfterRemoval ==
    \A n \in Removable : Processed(n) => Forgotten(nodeStates, attrStates, n)

\* no cycle that resolves after the notification was processed writes to a
\* node of the removed subtree
C30_NoWriteAfterRemoval ==
    [][\A n \in Removable, c \in DOMAIN cycles :
           (Processed(n) /\ ApplyStep(c))
               => /\ \A t \in Range(TextNodesUnder(n)) : text'[t] = text[t]
                  /\ \A e \in Range(ElementsUnder(n)) : tattrs'[e] = tattrs[e]]_vars

\* the AttributeState map of an element is never left empty
C30_NoEmptyAttributeMap ==
    \A e \in DOMAIN attrStates : DOMAIN attrStates[e] # {}

\* a callback whose records hold the removal of n and, after it, no record
\* of a change inside the removed subtree leaves no state for the subtree,
\* and none comes back once the subtree is forgotten and unobserved
C30_RemovalForgets ==
    /\ [][\A n \in Removable :
              (/\ Deliver
               /\ \E i \in DOMAIN records :
                      /\ records[i].type = "childList" /\ records[i].target = n
                      /\ \A j \in DOMAIN records :
                             j > i => ~IsDetached(records[j].target))
                  => Forgotten(nodeStates', attrStates', n)]_vars
    /\ [][\A n \in Removable :
              (/\ Processed(n)
               /\ n \notin detached.transient
               /\ Forgotten(nodeStates, attrStates, n))
                  => Forgotten(nodeStates', attrStates', n)]_vars

\* the template with its k-th placeholder occurrence replaced by values[k],
\* for as many occurrences as there are values
RECURSIVE FilledByPosition(_, _)
FilledByPosition(template, values) ==
    IF values = <<>> THEN template
    ELSE LET p == IndexOf(template, PlaceholderToken, 1)
         IN  IF p = 0 THEN template
             ELSE SubSeq(template, 1, p - 1) \o values[1]
                      \o FilledByPosition(SubSeq(template, p + Len(PlaceholderToken),
                                                 Len(template)),
                                          Tail(values))

\* the value of fragment f of a text in container e: the value of the
\* variable's attribute on the nearest element that carries it, and the raw
\* matched text for a number or for a variable that no element carries
RECURSIVE ValueOfFragment(_, _)
ValueOfFragment(e, f) ==
    IF f.type # "variable" \/ e = NoNode THEN f.raw
    ELSE IF VariableAttributeName(f.name) \in DOMAIN tattrs[e]
    THEN tattrs[e][VariableAttributeName(f.name)]
    ELSE ValueOfFragment(ParentElement(e), f)

ValuesOfFragments(e, fragments) ==
    [i \in 1..Len(fragments) |-> ValueOfFragment(e, fragments[i])]

\* the step of cycle c writes text node t, pending on a key with fragments
WritesFragments(c, t) ==
    /\ ApplyStep(c)
    /\ t \in DOMAIN nodeStates
    /\ text'[t] # text[t]
    /\ nodeStates[t].fragments # <<>>

\* C31: what a cycle writes to a text node whose key has fragments is a
\* translated template of the key with its k-th placeholder occurrence
\* replaced by the value of the k-th fragment (the variable's resolved
\* value, whatever it holds, or its raw text when it does not resolve).
C31_FilledByPosition ==
    [][\A c \in DOMAIN cycles, t \in DOMAIN text :
           WritesFragments(c, t) =>
               \E template \in TemplatesOf(nodeStates[t].pendingSource) :
                   text'[t] = FilledByPosition(template,
                                  ValuesOfFragments(ParentElement(t),
                                                    nodeStates[t].fragments))]_vars

\* the same, for fragment values that do not hold the placeholder token
C31_FilledByPositionPlain ==
    [][\A c \in DOMAIN cycles, t \in DOMAIN text :
           (/\ WritesFragments(c, t)
            /\ \A v \in Range(ValuesOfFragments(ParentElement(t), nodeStates[t].fragments)) :
                   IndexOf(v, PlaceholderToken, 1) = 0)
               => \E template \in TemplatesOf(nodeStates[t].pendingSource) :
                      text'[t] = FilledByPosition(template,
                                     ValuesOfFragments(ParentElement(t),
                                                       nodeStates[t].fragments))]_vars

\* the directive of element e alone: "skip" for a skip marker or a
\* data-transmut value that says skip, "inherit", "include" for any other
\* data-transmut value, "none" without a marker
DirectiveAt(e) ==
    IF attrs[e]["data-transmut-skip"] # Absent
       /\ attrs[e]["data-transmut-skip"] \notin BOOLEAN_FALSE_VALUES
    THEN "skip"
    ELSE IF attrs[e]["data-transmut"] = Absent THEN "none"
    ELSE IF attrs[e]["data-transmut"] \in DATA_DIRECTIVE_SKIP_VALUES THEN "skip"
    ELSE IF attrs[e]["data-transmut"] = "inherit" THEN "inherit"
    ELSE "include"

\* the first directive other than inherit on the way up from e; "none" when
\* there is none
FirstDirective(e) ==
    LET up == AncestorsOrSelf(e)
        at == {i \in 1..Len(up) : DirectiveAt(up[i]) \notin {"none", "inherit"}}
    IN  IF at = {} THEN "none"
        ELSE DirectiveAt(up[CHOOSE i \in at : \A j \in at : i =< j])

\* element.closest("[data-transmut]")
ClosestMarked(e) ==
    \E i \in 1..Len(AncestorsOrSelf(e)) :
        attrs[AncestorsOrSelf(e)[i]]["data-transmut"] # Absent

\* no element from e upward carries a directive
Undirected(e) ==
    \A i \in 1..Len(AncestorsOrSelf(e)) : DirectiveAt(AncestorsOrSelf(e)[i]) = "none"

ContainerOf(t) == IF ParentNode(t) \in ShadowRoots THEN Host(ParentNode(t)) ELSE ParentElement(t)

\* text node t is in a tree the observer was given: the document, or a
\* shadow root handed to observeShadowRoot
InObservedTree(t) ==
    IF ParentNode(t) \in ShadowRoots THEN ParentNode(t) \in observedRoots
    ELSE "body" \in observedRoots

\* the only-if half of C32, which the two statements share
OptedInOnly ==
    options.requireExplicitOptIn =>
        \A t \in DOMAIN nodeStates :
            ClosestMarked(ContainerOf(t)) \/ FirstDirective(ContainerOf(t)) = "include"

LeftAlone(e) ==
    \/ options.skipEditable /\ TagName(e) \in {"INPUT", "TEXTAREA", "SELECT"}
    \/ TagName(e) \in {"SCRIPT", "STYLE", "NOSCRIPT"}

IsStoredAsString(ns, k) ==
    ns \in DOMAIN cache /\ k \in DOMAIN cache[ns] /\ cache[ns][k].updatedAt = StoredAsString

\* the values pending on key k of the batch, with the content the key was
\* taken from, receive the translation made of value and become Clean
AppliesValue(batch, k, value) ==
    /\ \A t \in DOMAIN nodeStates :
           (/\ IsRequested(nodeStates[t], batch)
            /\ nodeStates[t].pendingSource = k
            /\ nodeStates[t].lastText = text[t])
               => /\ text'[t] = AppliedHit(nodeStates[t], value, GetTextContainer(t))
                  /\ nodeStates'[t] = SettledState(TRUE, text'[t])
    /\ \A e \in DOMAIN attrStates : \A n \in DOMAIN attrStates[e] :
           (/\ IsRequested(attrStates[e][n], batch)
            /\ n \in DOMAIN tattrs[e]
            /\ attrStates[e][n].pendingSource = k
            /\ attrStates[e][n].lastText = tattrs[e][n])
               => /\ tattrs'[e][n] = AppliedHit(attrStates[e][n], value, e)
                  /\ attrStates'[e][n] = SettledState(TRUE, tattrs'[e][n])

\* C33: the cache read of a cycle returns only keys of the batch that the
\* store holds, each with the stored value and a numeric updatedAt, which
\* is that of Date.now() = 0 for a value stored as a plain string; with an
\* expiry configured such a key is fetched again by every cycle that reads
\* it while the host is online; and when the lookup then returns no
\* translation the cached value is applied.
C33_PlainStringEntries ==
    /\ [][\A c \in DOMAIN cycles :
              (cycles[c].pc = "io" /\ cycles[c].phase = "read" /\ PartitionStep(c)) =>
                  \A k \in DOMAIN partition'.hits :
                      /\ k \in Range(cycles[c].batch)
                      /\ k \in DOMAIN cache[cycles[c].handle]
                      /\ partition'.hits[k].value = cache[cycles[c].handle][k].value
                      /\ partition'.hits[k].updatedAt # StoredAsString
                      /\ IsStoredAsString(cycles[c].handle, k)
                             => /\ partition'.hits[k].updatedAt = Epoch
                                /\ (expiryHours > 0 /\ online)
                                       => /\ k \in Range(partition'.fetchKeys)
                                          /\ cycles'[c].pc = "lookup"
                                          /\ cycles'[c].resolved[k] = cache[cycles[c].handle][k].value]_vars
    /\ [][\A c \in DOMAIN cycles :
              (\E o \in {"empty", "nullish", "jsonInvalid", "reject"} : LookupReturn(c, o))
                  => \A k \in DOMAIN cycles[c].resolved :
                         AppliesValue(cycles[c].batch, k, cycles[c].resolved[k])]_vars

\* with an expiry configured, a cycle that called the lookup function has
\* ended and a text node shows the value that was stored as a plain string
C33_Witness ==
    /\ expiryHours > 0
    /\ \E c \in DOMAIN cycles : cycles[c].pc = "done" /\ cycles[c].calls > 0
    /\ \E t \in DOMAIN nodeStates :
           /\ text[t] = LegacyValue
           /\ nodeStates[t] = SettledState(TRUE, LegacyValue)
    /\ IsStoredAsString(<<"en", "default">>, <<"a">>)

\* initialize() has resolved after the callback returned keys, and no cycle
\* has read the cache yet
InvalidatedUnread ==
    /\ db.init.pc = "ready"
    /\ db.init.keys # {}
    /\ \A c \in DOMAIN cycles : cycles[c].pc = "init"

\* the databases of the current and of the default locale
OwnDbNames ==
    {ComposeDbName(db.current[1], db.current[2]),
     ComposeDbName(defaultLocale[1], defaultLocale[2])}

\* the step is the return of the callback with the keys K, not all empty
ReturnsKeys(K, enumerated) ==
    /\ HookReturn([ok |-> TRUE, keys |-> K], enumerated)
    /\ K \ {<<>>} # {}

\* the steps of the invalidation: the return of the callback with
\* keys starts a deletion in every enumerated database with the engine's
\* prefix and in those of the current and of the default locale, and in no
\* other; a deletion changes nothing but its database, from which it takes
\* the keys and nothing else; and no cycle reads the cache before
\* initialize() has resolved
DeletionSteps ==
    /\ [][\A K \in {o.keys : o \in HookOutcomes}, enumerated \in SUBSET (DOMAIN cache \cup {ForeignDb}) :
              ReturnsKeys(K, enumerated) =>
                  /\ db'.init.keys = K \ {<<>>}
                  /\ db'.init.pending = (enumerated \ {ForeignDb}) \cup OwnDbNames]_vars
    /\ [][\A name \in DOMAIN cache :
              (db.init.pc = "deleting" /\ db'.init.pending = db.init.pending \ {name}
                 /\ name \in db.init.pending) =>
                  /\ \A other \in DOMAIN cache \ {name} : cache'[other] = cache[other]
                  /\ \/ cache'[name] = cache[name] /\ name \in db'.init.failed
                     \/ /\ DOMAIN cache'[name] = DOMAIN cache[name] \ db.init.keys
                        /\ \A k \in DOMAIN cache'[name] : cache'[name][k] = cache[name][k]
                        /\ db'.init.failed = db.init.failed]_vars
    /\ [][\A c \in DOMAIN cycles : ReadStep(c) => db.init.pc = "ready"]_vars

HookRejects ==
    \E o \in HookOutcomes, enumerated \in SUBSET (DOMAIN cache \cup {ForeignDb}) :
        ~o.ok /\ HookReturn(o, enumerated)

\* C35: when the invalidate callback rejects or throws, initialize()
\* resolves at once with no key to delete and no deletion started, and all
\* else is as it was, so that the constructor's changeLocale and the cycles
\* go on as they do without a callback; no database loses a key afterwards
\* (a database changes only by the cache write of a cycle, which adds
\* keys).
C35_RejectionDeletesNothing ==
    /\ [][HookRejects =>
              /\ db' = [db EXCEPT !.init = [NoInvalidation EXCEPT !.calls = 1,
                                                                  !.rejected = TRUE]]
              /\ Initialized(db')
              /\ cache' = cache]_vars
    /\ [](db.init.rejected =>
             /\ db.init.pc = "ready"
             /\ db.init.keys = {} /\ db.init.names = {} /\ db.init.pending = {})
    /\ [][db.init.rejected =>
              \A name \in DOMAIN cache : DOMAIN cache[name] \subseteq DOMAIN cache'[name]]_vars

\* the callback rejected; the constructor's changeLocale and a later one
\* have resolved, a cycle has called the lookup function and ended, and the
\* databases still hold the key "a"
C35_Witness ==
    /\ db.init.rejected
    /\ initDone
    /\ history.localeCalls > 0
    /\ \E c \in DOMAIN cycles : cycles[c].pc = "done" /\ cycles[c].calls > 0
    /\ \A name \in DOMAIN cache : <<"a">> \in DOMAIN cache[name]

\* C36: after disconnect() has returned the cache holds no open database
\* and no pending open request, whatever the cycles in flight do.
C36_NoHandleAfterDisconnect ==
    history.disconnected => (db.dbInstance = NoDb /\ db.dbPromise = 0)

\* the NodeStates and AttributeStates the observer holds
TrackedStates ==
    {nodeStates[t] : t \in DOMAIN nodeStates}
        \cup UNION {{attrStates[e][n] : n \in DOMAIN attrStates[e]} :
                        e \in DOMAIN attrStates}

\* C37: in every reachable state, for every NodeState and AttributeState:
\* a translated state has no pending key; a pending key is the lookup key
\* of the content last recorded (the normalized text when that content has
\* dynamic fragments, the content itself otherwise); the normalized key and
\* the fragments are set only while a key is pending.
C37_StateShape ==
    \A state \in TrackedStates :
        /\ state.translated => state.pendingSource = <<>>
        /\ state.pendingSource # <<>> =>
               state.pendingSource = TranslationKey(state.lastText)
        /\ state.pendingSource = <<>> =>
               (state.normalizedKey = <<>> /\ state.fragments = <<>>)

\* a text with a variable is pending under its normalized key, which is
\* not its content, with its fragments recorded, while another tracked
\* value is translated and carries no key
C37_Witness ==
    /\ "t1" \in DOMAIN nodeStates
    /\ nodeStates["t1"].normalizedKey # <<>>
    /\ nodeStates["t1"].fragments # <<>>
    /\ nodeStates["t1"].pendingSource # nodeStates["t1"].lastText
    /\ \E state \in TrackedStates : state.translated

\* every tracked value is Clean and nothing waits for a cycle
EveryValueClean ==
    /\ transBatch = <<>>
    /\ \A t \in DOMAIN nodeStates : CleanText(t)
    /\ \A e \in DOMAIN attrStates : \A n \in DOMAIN attrStates[e] : CleanAttribute(e, n)

\* the records queued are those of attributes the engine does not translate
\* (the lang and dir stamps among them)
OnlyStamps ==
    \A i \in DOMAIN records :
        /\ records[i].type = "attributes"
        /\ records[i].target \notin DOMAIN attrStates

\* C38: changeLocale, and the callback that handles the records of its
\* metadata stamps, leave every Clean value as it is: its content is not
\* written, its state stays the same (translated, no pending key), and
\* when all tracked values are Clean no cycle is started for the new locale.
C38_ChangeLocaleKeepsClean ==
    [][((\E loc \in Locales : ChangeLocale(loc)) \/ Deliver) =>
           /\ \A t \in DOMAIN text :
                  CleanText(t) =>
                      /\ text'[t] = text[t]
                      /\ t \in DOMAIN nodeStates' /\ nodeStates'[t] = nodeStates[t]
           /\ \A e \in DOMAIN tattrs : \A n \in DOMAIN tattrs[e] :
                  CleanAttribute(e, n) =>
                      /\ tattrs'[e][n] = tattrs[e][n]
                      /\ e \in DOMAIN attrStates' /\ n \in DOMAIN attrStates'[e]
                      /\ attrStates'[e][n] = attrStates[e][n]
           /\ (EveryValueClean /\ OnlyStamps) =>
                  (cycles' = cycles /\ transBatch' = <<>>)]_vars

\* changeLocale has switched to another locale than the default, the
\* records of its stamps have been handled, no cycle is in flight, and a
\* text translated under the default locale is still Clean
C38_Witness ==
    /\ history.localeCalls > 0
    /\ locale # defaultLocale
    /\ records = <<>>
    /\ Live(cycles) = {}
    /\ nodeStates # EmptyMap
    /\ EveryValueClean
    /\ \E t \in DOMAIN nodeStates : text[t] # <<"a">>

\* C39: a cycle stays with one locale: the database whose hits it has read
\* when it calls the lookup function is the database of the locale it
\* passes to that call, and the database into which it writes the results
\* is the database of that locale too.
C39_OneLocalePerCycle ==
    [][\A c \in DOMAIN cycles :
           /\ (cycles[c].pc = "io" /\ cycles[c].phase = "read"
                 /\ cycles'[c].pc = "lookup") =>
                  cycles[c].handle = ComposeDbName(cycles'[c].lookupLocale[1],
                                                   cycles'[c].lookupLocale[2])
           /\ (cycles[c].pc = "io" /\ cycles[c].phase = "persist"
                 /\ cache' # cache) =>
                  cache'[ComposeDbName(cycles[c].lookupLocale[1],
                                       cycles[c].lookupLocale[2])]
                      # cache[ComposeDbName(cycles[c].lookupLocale[1],
                                            cycles[c].lookupLocale[2])]]_vars

(***************************************************************************)
(* Calls of upsertTranslations that overlap.  withDatabase awaits the read *)
(* of the database file, runs the handler on its own in-memory database,   *)
(* and awaits the write of the exported image; backend.calls holds the     *)
(* calls begun, each at                                                    *)
(*   read   fs.readFile of readDatabaseFile is pending                     *)
(*   write  fs.writeFile of writeDatabaseFile is pending                   *)
(*   done   the call has resolved                                          *)
(* and inTurn tells whether it began when no other call was in flight      *)
(* (bookkeeping).                                                          *)
(***************************************************************************)
\* every call of upsertTranslations begun has resolved
AllResolved == \A i \in DOMAIN backend.calls : backend.calls[i].pc = "done"

\* the in-memory database of a call that has not read the file yet
NoImage == [schema |-> FALSE, translations |-> {}]

\* the application calls upsertTranslations; the call runs up to the first
\* await of withDatabase that depends on the file
UpsertBegin(ofLocale, translations, touchedAt) ==
    /\ backend.upserts < MaxUpserts
    /\ ToRecordArray(translations) # <<>>
    /\ NormalizeLocale(ofLocale).lang # <<>>
    /\ backend' = [backend EXCEPT
                      !.upserts = @ + 1,
                      !.calls = Append(@, [pc |-> "read",
                                           loc |-> NormalizeLocale(ofLocale),
                                           entries |-> ToRecordArray(translations),
                                           updatedAt |-> touchedAt,
                                           image |-> NoImage,
                                           inTurn |-> AllResolved])]
    /\ UNCHANGED <<text, tattrs, attrs, options, defaultLocale, requestedLocale,
                   locale, expiryHours, nodeStates, attrStates, transBatch,
                   observedRoots, connected, records, initDone, cycles, cache, db,
                   online, now, partition, history,
                   detached>>

\* the database a call builds from given file contents: new SQL.Database,
\* ensureSchema, and the handler of upsertTranslations
HandledImage(file, call) ==
    [schema |-> TRUE,
     translations |-> UpsertRecords(file.translations, call.loc, call.entries, FALSE,
                                    call.updatedAt)]

\* fs.readFile of call i ends: withDatabase opens the bytes, runs the
\* handler and starts the write of the exported database
ReadFileDone(i) ==
    /\ i \in DOMAIN backend.calls
    /\ backend.calls[i].pc = "read"
    /\ backend' = [backend EXCEPT
                      !.calls[i].pc = "write",
                      !.calls[i].image = HandledImage(backend, backend.calls[i])]
    /\ UNCHANGED <<text, tattrs, attrs, options, defaultLocale, requestedLocale,
                   locale, expiryHours, nodeStates, attrStates, transBatch,
                   observedRoots, connected, records, initDone, cycles, cache, db,
                   online, now, partition, history,
                   detached>>

\* fs.writeFile of call i ends: the file is the exported database of the
\* call, and the call resolves
WriteFileDone(i) ==
    /\ i \in DOMAIN backend.calls
    /\ backend.calls[i].pc = "write"
    /\ backend' = [backend EXCEPT
                      !.calls[i].pc = "done",
                      !.schema = backend.calls[i].image.schema,
                      !.translations = backend.calls[i].image.translations,
                      !.returned = Returned(FALSE, backend.calls[i].entries, FALSE)]
    /\ UNCHANGED <<text, tattrs, attrs, options, defaultLocale, requestedLocale,
                   locale, expiryHours, nodeStates, attrStates, transBatch,
                   observedRoots, connected, records, initDone, cycles, cache, db,
                   online, now, partition, history,
                   detached>>

\* the batches of the overlapping calls: one record each, with one of two keys
OverlapBatches ==
    {<<[key |-> k, value |-> v, edited |-> FALSE, metadata |-> Null]>> :
        k \in BackendKeys, v \in {<<"x">>, <<"y">>}}

NextOverlap ==
    \/ \E loc \in BackendLocales, batch \in OverlapBatches, touchedAt \in 1..2 : UpsertBegin(loc, batch, touchedAt)
    \/ \E i \in DOMAIN backend.calls : ReadFileDone(i)
    \/ \E i \in DOMAIN backend.calls : WriteFileDone(i)
    \/ \E loc \in LoadLocales, keys \in KeyLists, fallback \in BOOLEAN : LoadTranslations(loc, keys, fallback)

SpecOverlap == InitBackend /\ [][NextOverlap]_vars

\* loadTranslations for the locale of call i, asked now for the keys the
\* call wrote, returns each of them
LoadsKeysOf(i) ==
    \A j \in DOMAIN backend.calls[i].entries :
        Trim(backend.calls[i].entries[j].key)
            \in DOMAIN LoadResult(backend,
                                  <<backend.calls[i].loc.lang, backend.calls[i].loc.region>>,
                                  <<Trim(backend.calls[i].entries[j].key)>>, FALSE)

\* C40: once all calls of upsertTranslations on the database have resolved,
\* every key written by any of them is returned by loadTranslations for
\* its locale, also when the calls overlapped in time.
C40_NoLostUpsert ==
    AllResolved => \A i \in DOMAIN backend.calls : LoadsKeysOf(i)

\* C40 (calls in turn): once all calls have resolved, none of which began
\* while another was in flight, every key written by any of them is
\* returned by loadTranslations for its locale.
C40_NoLostUpsertInTurn ==
    (AllResolved /\ \A i \in DOMAIN backend.calls : backend.calls[i].inTurn)
        => \A i \in DOMAIN backend.calls : LoadsKeysOf(i)
====
